---- MODULE Spec2Model ----
(***************************************************************************)
(* Model of the test-generation agent: the LangGraph state machine built   *)
(* by criar_grafo_agente (src/src/agent/graph.py), its node functions      *)
(* (src/src/agent/nodes.py) and the initial state of src/main.py.          *)
(*                                                                         *)
(* The agent state (EstadoAgente, a dict) is the function `estado`; a node *)
(* returns a partial update and the graph overwrites the keys it names.    *)
(* Percentages are integers (the code only compares them).  Optional       *)
(* strings use the string "None" for Python's None.                        *)
(***************************************************************************)
EXTENDS Integers, Sequences, FiniteSets, TLC

VARIABLES
    estado,           \* EstadoAgente: the dict threaded through the graph
    pc,               \* the node the graph runs next ("END" when finished)
    nos_executados,   \* the node names app.stream has yielded so far
    estado_anterior,  \* the state the last executed node received
    estado_iter,      \* the state at entry of the current iteration's Generate
    ultima_geracao,   \* outcome of the current iteration's Generate stage
    ultima_medicao,   \* outcome of the last call of no_executar_cobertura
    ambiente,         \* facts of the environment fixed for the run
    estado_final,     \* main's estado_final: the last chunk app.stream yielded
    chamada_llm       \* the request the current Generate sent to the collaborator

vars_agente == <<estado, pc, nos_executados, estado_anterior, estado_iter,
                 ultima_geracao, ultima_medicao, ambiente, estado_final, chamada_llm>>

\* obter_arquivos_e_linhas_modificadas: how the diff command ended, the lines
\* of its output, the index of the next line to read, the two locals of the
\* parse loop, the returned ChangeSet and the position in the function.
VARIABLES comando_diff, saida_diff, pos_diff, arquivo_atual, linhas_modificadas,
          resultado_dict, fase_diff

vars_diff == <<comando_diff, saida_diff, pos_diff, arquivo_atual,
               linhas_modificadas, resultado_dict, fase_diff>>

\* filtrar_cobertura_por_diff and extrair_resumo_cobertura: the report file
\* they read, the items of the arquivos_modificados dict in insertion order,
\* the file the filter writes and the value it returns, the same two for a
\* second run of the filter on the file it wrote, the summary last
\* extracted, and the position in the sequence of calls.
VARIABLES arquivo_cobertura, itens_modificados, arquivo_saida, retorno_filtro,
          arquivo_refiltrado, retorno_refiltro, resumo_extraido, fase_filtro

vars_filtro == <<arquivo_cobertura, itens_modificados, arquivo_saida,
                 retorno_filtro, arquivo_refiltrado, retorno_refiltro,
                 resumo_extraido, fase_filtro>>

\* verificar_sdks_necessarios: the target frameworks read from the build
\* descriptors, the installed SDK versions, the two values returned and the
\* position in the function.
VARIABLES frameworks_necessarios, sdks_instalados, todos_ok, frameworks_faltando,
          fase_sdks

vars_sdks == <<frameworks_necessarios, sdks_instalados, todos_ok,
               frameworks_faltando, fase_sdks>>

\* executar_testes_com_cobertura: the strategy, how the build and the test
\* command end, whether the run writes a coverage file, whether a file the
\* strategy looks for is left from an earlier run, the commands executed so
\* far, the value returned and the position in the function.
VARIABLES tipo_coverlet, resultado_build, resultado_teste, artefato_gerado,
          artefato_antigo, comandos_executados, retorno_testes, fase_testes

vars_testes == <<tipo_coverlet, resultado_build, resultado_teste, artefato_gerado,
                 artefato_antigo, comandos_executados, retorno_testes, fase_testes>>

\* The directory .coverage-reports as no_executar_cobertura leaves it: the
\* content of each file, the steps of the last measurement that read the
\* merged report, how the merge tool ended in that measurement, the
\* coverage of the changed lines in the report it summarised, and how the
\* filter and the rendering of the diff report ended.
VARIABLES disco, leituras_mesclado, ferramenta_mescla, cobertura_linhas_modificadas,
          passos_diff

vars_disco == <<disco, leituras_mesclado, ferramenta_mescla, cobertura_linhas_modificadas,
                passos_diff>>

\* The per-project loop of no_executar_cobertura: the test projects and the
\* strategy of each, how the run of each ends, the files of the results
\* directory with the run that wrote each, the paths collected so far with
\* the project each was returned for, and the position in the loop.
VARIABLES projetos_loop, tipos_coverlet, execucoes_loop, diretorio_saida,
          arquivos_coletados, pos_loop

vars_loop == <<projetos_loop, tipos_coverlet, execucoes_loop, diretorio_saida,
               arquivos_coletados, pos_loop>>

\* detectar_branch_base: how the fetch ends, the references that resolve,
\* the index of the candidate tried next, the value returned and the
\* position in the function.
VARIABLES resultado_fetch, refs_existentes, pos_candidata, branch_base, fase_branch

vars_branch == <<resultado_fetch, refs_existentes, pos_candidata, branch_base, fase_branch>>

\* The node during which the user interrupted the run ("nenhum" if none).
VARIABLES interrompido_em

vars_interrupcao == <<interrompido_em>>

vars == <<vars_agente, vars_diff, vars_filtro, vars_sdks, vars_testes, vars_disco,
          vars_loop, vars_branch, vars_interrupcao>>

\* The variables each part of the model leaves alone.
fora_agente == <<vars_diff, vars_filtro, vars_sdks, vars_testes, vars_disco,
                 vars_loop, vars_branch, vars_interrupcao>>
fora_medicao == <<vars_diff, vars_filtro, vars_sdks, vars_testes,
                  vars_loop, vars_branch, vars_interrupcao>>
fora_diff == <<vars_agente, vars_filtro, vars_sdks, vars_testes, vars_disco,
               vars_loop, vars_branch, vars_interrupcao>>
fora_filtro == <<vars_agente, vars_diff, vars_sdks, vars_testes, vars_disco,
                 vars_loop, vars_branch, vars_interrupcao>>
fora_sdks == <<vars_agente, vars_diff, vars_filtro, vars_testes, vars_disco,
               vars_loop, vars_branch, vars_interrupcao>>
fora_testes == <<vars_agente, vars_diff, vars_filtro, vars_sdks, vars_disco,
                 vars_loop, vars_branch, vars_interrupcao>>
fora_loop == <<vars_agente, vars_diff, vars_filtro, vars_sdks, vars_testes, vars_disco,
               vars_branch, vars_interrupcao>>
fora_branch == <<vars_agente, vars_diff, vars_filtro, vars_sdks, vars_testes, vars_disco,
                 vars_loop, vars_interrupcao>>
fora_interrupcao == <<vars_diff, vars_filtro, vars_sdks, vars_testes, vars_disco,
                      vars_loop, vars_branch>>

\* ---------------------------------------------------------------- bounds

\* Largest MAX_ITERATIONS the model draws.
MaxIter == 5

\* Values of TARGET_COVERAGE_PERCENTAGE the model draws.
MetaVals == {0, 80, 95}

\* Coverage the Coverage Runner would measure in iteration k, per scenario.
CoberturaSobe == [k \in 0..(MaxIter + 1) |-> IF k = 0 THEN 40 ELSE IF k = 1 THEN 65 ELSE 82]
CoberturaBaixa == [k \in 0..(MaxIter + 1) |-> IF k = 0 THEN 30 ELSE 50]
Cenarios == {CoberturaSobe, CoberturaBaixa}

\* ------------------------------------------------------------ dict helpers

\* dict.get(k, d)
Get(e, k, d) == IF k \in DOMAIN e THEN e[k] ELSE d

\* LangGraph's merge of a node's partial update into the state (no reducers:
\* every returned key overwrites the stored one).
Aplicar(e, u) == u @@ e

\* ------------------------------------------------------- main.py: Init

criar_estado_inicial(codigo_fonte, caminho_projeto, meta, max) ==
    [ codigo_fonte          |-> codigo_fonte,
      testes_existentes     |-> "",
      testes_gerados        |-> <<>>,
      percentual_cobertura  |-> 0,
      meta_cobertura        |-> meta,
      iteracao              |-> 0,
      max_iteracoes         |-> max,
      historico             |-> <<>>,
      erros                 |-> <<>>,
      caminho_projeto       |-> caminho_projeto,
      deve_continuar        |-> FALSE,
      eh_repositorio_git    |-> FALSE,
      validacoes_concluidas |-> FALSE,
      arquivos_modificados  |-> <<>>,
      arquivos_csproj       |-> <<>>,
      projetos_teste        |-> <<>>,
      dotnet_instalado      |-> FALSE ]

\* ------------------------------------------------- tools.py: validator

\* A generated test, by the three substrings validar_codigo_teste looks for.
validar_codigo_teste(t) ==
    LET eh_valido == t.tem_using /\ t.tem_classe_teste /\ t.tem_metodo_teste
        e1 == IF ~t.tem_using THEN <<"Faltam declaracoes 'using'">> ELSE <<>>
        e2 == IF ~t.tem_classe_teste THEN <<"Falta atributo de teste">> ELSE <<>>
        e3 == IF ~t.tem_metodo_teste THEN <<"Falta metodo de teste publico">> ELSE <<>>
    IN [eh_valido |-> eh_valido, erros |-> e1 \o e2 \o e3]

\* Responses the text-generation collaborator may give in iteration k: a test
\* with the full shape, one lacking the test attribute, an empty text, a text
\* of whitespace only, or an error raised by the call.
Respostas(k) ==
    { [tipo |-> "teste", iteracao |-> k, tem_using |-> TRUE,
       tem_classe_teste |-> TRUE, tem_metodo_teste |-> TRUE],
      [tipo |-> "teste", iteracao |-> k, tem_using |-> TRUE,
       tem_classe_teste |-> FALSE, tem_metodo_teste |-> TRUE],
      [tipo |-> "vazia"],
      [tipo |-> "espacos"],
      [tipo |-> "erro"] }

limpar_codigo_gerado_sem_strip(resposta) ==
    IF resposta.tipo = "espacos"
    THEN [tipo |-> "teste", iteracao |-> 0, tem_using |-> FALSE,
          tem_classe_teste |-> FALSE, tem_metodo_teste |-> FALSE]
    ELSE resposta

\* GeradorTestes._limpar_codigo_gerado: fences removed, then strip(); a text
\* of whitespace only becomes the empty text.
limpar_codigo_gerado(resposta) ==
    IF resposta.tipo = "espacos" THEN [tipo |-> "vazia"] ELSE resposta

\* GeradorTestes.gerar_teste: the text, or None on an error; "" is an empty text.
gerar_teste(codigo_fonte, resposta) ==
    IF codigo_fonte = "" THEN [tipo |-> "None"]
    ELSE IF resposta.tipo = "erro" THEN [tipo |-> "None"]
    ELSE limpar_codigo_gerado(resposta)

\* The payload of chain.invoke in gerar_teste, built from what no_gerar_testes
\* reads from the state; no call is made without source code or without an LLM.
pedido_gerar_teste(e, llm_configurado) ==
    LET codigo_fonte == Get(e, "codigo_fonte", "")
        testes_existentes == Get(e, "testes_existentes", "")
    IN IF codigo_fonte = "" \/ ~llm_configurado THEN [feita |-> FALSE]
       ELSE [ feita |-> TRUE,
              source_code |-> codigo_fonte,
              existing_tests |-> IF testes_existentes = ""
                                 THEN "Nenhum teste existente." ELSE testes_existentes,
              iteration |-> Get(e, "iteracao", 0) ]

\* ------------------------------------------------------- nodes.py: nodes

\* no_validar_ambiente; `amb` is what the probes find.
no_validar_ambiente(e, amb) ==
    IF e.caminho_projeto = "None" THEN
        [ erros |-> Get(e, "erros", <<>>) \o <<"Caminho do projeto nao fornecido">>,
          validacoes_concluidas |-> FALSE ]
    ELSE IF ~amb.eh_repositorio THEN
        [ eh_repositorio_git |-> FALSE,
          erros |-> Get(e, "erros", <<>>) \o <<"O caminho fornecido nao e um repositorio Git valido">>,
          validacoes_concluidas |-> FALSE ]
    ELSE LET historico == Append(Get(e, "historico", <<>>),
                                 [acao |-> "validar_ambiente", repositorio_git |-> TRUE])
         IN IF amb.arquivos_csproj = <<>> THEN
                [ eh_repositorio_git |-> TRUE,
                  arquivos_modificados |-> amb.arquivos_modificados,
                  arquivos_csproj |-> <<>>,
                  erros |-> Get(e, "erros", <<>>) \o <<"Nenhum arquivo .csproj encontrado no repositorio">>,
                  historico |-> historico,
                  validacoes_concluidas |-> FALSE ]
            ELSE IF ~amb.dotnet_instalado THEN
                [ eh_repositorio_git |-> TRUE,
                  arquivos_modificados |-> amb.arquivos_modificados,
                  arquivos_csproj |-> amb.arquivos_csproj,
                  projetos_teste |-> amb.projetos_teste,
                  dotnet_instalado |-> FALSE,
                  erros |-> Get(e, "erros", <<>>) \o <<".NET SDK nao esta instalado">>,
                  historico |-> historico,
                  validacoes_concluidas |-> FALSE ]
            ELSE
                [ eh_repositorio_git |-> TRUE,
                  arquivos_modificados |-> amb.arquivos_modificados,
                  arquivos_csproj |-> amb.arquivos_csproj,
                  projetos_teste |-> amb.projetos_teste,
                  dotnet_instalado |-> TRUE,
                  historico |-> historico,
                  validacoes_concluidas |-> TRUE ]

no_analisar_codigo(e) ==
    IF Get(e, "codigo_fonte", "") = "" THEN
        [ erros |-> Get(e, "erros", <<>>) \o <<"Codigo fonte nao fornecido">> ]
    ELSE
        [ historico |-> Append(Get(e, "historico", <<>>), [acao |-> "analisar_codigo"]) ]

no_gerar_testes_sem_erro(e, llm_configurado, resposta) ==
    LET codigo_fonte == Get(e, "codigo_fonte", "")
        iteracao == Get(e, "iteracao", 0)
    IN IF codigo_fonte = "" THEN
          [ erros |-> Get(e, "erros", <<>>) \o <<"Codigo fonte nao fornecido para geracao de testes">> ]
       ELSE IF ~llm_configurado THEN
          [ erros |-> Get(e, "erros", <<>>) \o <<"Erro ao gerar testes: LLM nao configurado">> ]
       ELSE LET teste_gerado == gerar_teste(codigo_fonte, resposta)
            IN IF teste_gerado.tipo = "teste" THEN
                  [ testes_gerados |-> Append(Get(e, "testes_gerados", <<>>), teste_gerado),
                    historico |-> Append(Get(e, "historico", <<>>),
                                         [acao |-> "gerar_testes", iteracao |-> iteracao,
                                          teste_gerado |-> TRUE]) ]
               ELSE
                  [ erros |-> Get(e, "erros", <<>>) ]

no_gerar_testes_substitui_erros(e, llm_configurado, resposta) ==
    LET codigo_fonte == Get(e, "codigo_fonte", "")
        iteracao == Get(e, "iteracao", 0)
    IN IF codigo_fonte = "" THEN
          [ erros |-> <<"Codigo fonte nao fornecido para geracao de testes">> ]
       ELSE IF ~llm_configurado THEN
          [ erros |-> <<"Erro ao gerar testes: LLM nao configurado">> ]
       ELSE LET teste_gerado == gerar_teste(codigo_fonte, resposta)
            IN IF teste_gerado.tipo = "teste" THEN
                  [ testes_gerados |-> Append(Get(e, "testes_gerados", <<>>), teste_gerado),
                    historico |-> Append(Get(e, "historico", <<>>),
                                         [acao |-> "gerar_testes", iteracao |-> iteracao,
                                          teste_gerado |-> TRUE]) ]
               ELSE
                  [ erros |-> <<"Falha ao gerar teste">> ]

no_gerar_testes_dois_testes(e, llm_configurado, resposta) ==
    LET codigo_fonte == Get(e, "codigo_fonte", "")
        iteracao == Get(e, "iteracao", 0)
    IN IF codigo_fonte = "" THEN
          [ erros |-> Get(e, "erros", <<>>) \o <<"Codigo fonte nao fornecido para geracao de testes">> ]
       ELSE IF ~llm_configurado THEN
          [ erros |-> Get(e, "erros", <<>>) \o <<"Erro ao gerar testes: LLM nao configurado">> ]
       ELSE LET teste_gerado == gerar_teste(codigo_fonte, resposta)
            IN IF teste_gerado.tipo = "teste" THEN
                  [ testes_gerados |-> Get(e, "testes_gerados", <<>>)
                                       \o <<teste_gerado, teste_gerado>>,
                    historico |-> Append(Get(e, "historico", <<>>),
                                         [acao |-> "gerar_testes", iteracao |-> iteracao,
                                          teste_gerado |-> TRUE]) ]
               ELSE
                  [ erros |-> Get(e, "erros", <<>>) \o <<"Falha ao gerar teste">> ]

\* no_gerar_testes; `llm_configurado` is whether criar_llm() returns an LLM
\* (GeradorTestes.__init__ raises otherwise), `resposta` the collaborator's answer.
no_gerar_testes(e, llm_configurado, resposta) ==
    LET codigo_fonte == Get(e, "codigo_fonte", "")
        iteracao == Get(e, "iteracao", 0)
    IN IF codigo_fonte = "" THEN
          [ erros |-> Get(e, "erros", <<>>) \o <<"Codigo fonte nao fornecido para geracao de testes">> ]
       ELSE IF ~llm_configurado THEN
          [ erros |-> Get(e, "erros", <<>>) \o <<"Erro ao gerar testes: LLM nao configurado">> ]
       ELSE LET teste_gerado == gerar_teste(codigo_fonte, resposta)
            IN IF teste_gerado.tipo = "teste" THEN
                  [ testes_gerados |-> Append(Get(e, "testes_gerados", <<>>), teste_gerado),
                    historico |-> Append(Get(e, "historico", <<>>),
                                         [acao |-> "gerar_testes", iteracao |-> iteracao,
                                          teste_gerado |-> TRUE]) ]
               ELSE
                  [ erros |-> Get(e, "erros", <<>>) \o <<"Falha ao gerar teste">> ]

no_validar_testes(e) ==
    LET testes_gerados == Get(e, "testes_gerados", <<>>)
    IN IF testes_gerados = <<>> THEN
          [ erros |-> Get(e, "erros", <<>>) \o <<"Nenhum teste gerado para validar">> ]
       ELSE LET ultimo_teste == testes_gerados[Len(testes_gerados)]
                validacao == validar_codigo_teste(ultimo_teste)
            IN [ historico |-> Append(Get(e, "historico", <<>>),
                                      [acao |-> "validar_testes",
                                       eh_valido |-> validacao.eh_valido,
                                       erros |-> validacao.erros,
                                       teste |-> ultimo_teste]) ]

no_verificar_cobertura_ou(e) ==
    LET cobertura == Get(e, "percentual_cobertura", 0)
        meta == Get(e, "meta_cobertura", 80)
        iteracao == Get(e, "iteracao", 0)
        max_iteracoes == Get(e, "max_iteracoes", 5)
    IN [ historico |-> Append(Get(e, "historico", <<>>),
                              [acao |-> "verificar_cobertura", cobertura_atual |-> cobertura,
                               meta_cobertura |-> meta, iteracao |-> iteracao]),
         deve_continuar |-> (cobertura < meta \/ iteracao < max_iteracoes) ]

no_verificar_cobertura_menor_igual(e) ==
    LET cobertura == Get(e, "percentual_cobertura", 0)
        meta == Get(e, "meta_cobertura", 80)
        iteracao == Get(e, "iteracao", 0)
        max_iteracoes == Get(e, "max_iteracoes", 5)
    IN [ historico |-> Append(Get(e, "historico", <<>>),
                              [acao |-> "verificar_cobertura", cobertura_atual |-> cobertura,
                               meta_cobertura |-> meta, iteracao |-> iteracao]),
         deve_continuar |-> (cobertura < meta /\ iteracao <= max_iteracoes) ]

no_verificar_cobertura(e) ==
    LET cobertura == Get(e, "percentual_cobertura", 0)
        meta == Get(e, "meta_cobertura", 80)
        iteracao == Get(e, "iteracao", 0)
        max_iteracoes == Get(e, "max_iteracoes", 5)
    IN [ historico |-> Append(Get(e, "historico", <<>>),
                              [acao |-> "verificar_cobertura", cobertura_atual |-> cobertura,
                               meta_cobertura |-> meta, iteracao |-> iteracao]),
         deve_continuar |-> (cobertura < meta /\ iteracao < max_iteracoes) ]

\* ------------------------------------------- nodes.py: coverage measurement

\* How the report-merge tool may end: exit code 0 with Cobertura.xml written,
\* a non-zero exit code, exit code 0 without the file, or an exception.
ResultadosFerramenta == {"ok", "codigo_nao_zero", "sem_saida", "excecao"}

\* mesclar_arquivos_cobertura: False for an empty list, a copy for one report,
\* the report-merge tool's outcome for several.
mesclar_arquivos_cobertura(arquivos_cobertura, ferramenta) ==
    IF arquivos_cobertura = <<>> THEN FALSE
    ELSE IF Len(arquivos_cobertura) = 1 THEN TRUE
    ELSE ferramenta = "ok"

no_executar_cobertura_filtra_vazio(e, amb) ==
    LET caminho_projeto == Get(e, "caminho_projeto", "None")
        projetos_teste == Get(e, "projetos_teste", <<>>)
        arquivos_modificados == Get(e, "arquivos_modificados", <<>>)
    IN IF caminho_projeto = "None" THEN
          [ erros |-> Get(e, "erros", <<>>) \o <<"Caminho do projeto nao fornecido">> ]
       ELSE IF projetos_teste = <<>> THEN
          [ erros |-> Get(e, "erros", <<>>) \o <<"Nenhum projeto de teste encontrado">> ]
       ELSE
       LET arquivos_cobertura == SelectSeq(projetos_teste, LAMBDA p : p \in amb.com_artefato)
       IN IF arquivos_cobertura = <<>> THEN
             [ erros |-> Get(e, "erros", <<>>) \o <<"Nenhum arquivo de cobertura foi gerado">>,
               arquivos_cobertura |-> <<>> ]
          ELSE
          LET mesclado == mesclar_arquivos_cobertura(arquivos_cobertura, amb.mescla)
              relatorio_html_ok == mesclado /\ amb.html_ok
              filtra == mesclado
              relatorio_diff == filtra /\ amb.filtro_ok
              resumo_cobertura == IF mesclado /\ amb.resumo.ok
                                  THEN [line_coverage |-> amb.resumo.line_coverage]
                                  ELSE <<>>
          IN [ arquivos_cobertura |-> arquivos_cobertura,
               arquivo_cobertura_mesclado |->
                   IF mesclado THEN "coverage_merged.cobertura.xml" ELSE "None",
               arquivo_cobertura_diff |->
                   IF filtra THEN "coverage_diff.cobertura.xml" ELSE "None",
               relatorio_html_geral |->
                   IF relatorio_html_ok THEN "html-report/index.html" ELSE "None",
               relatorio_html_diff |->
                   IF relatorio_diff
                   THEN "html-report-diff/index.html" ELSE "None",
               resumo_cobertura |-> resumo_cobertura,
               percentual_cobertura |-> Get(resumo_cobertura, "line_coverage", 0),
               historico |-> Append(Get(e, "historico", <<>>),
                                    [acao |-> "executar_cobertura",
                                     arquivos_gerados |-> Len(arquivos_cobertura),
                                     relatorio_html |-> relatorio_html_ok,
                                     cobertura_percentual |->
                                         Get(resumo_cobertura, "line_coverage", 0)]) ]

\* no_executar_cobertura; `amb` is what the external tools do in this call:
\* com_artefato (the projects whose run returns a coverage artifact),
\* mescla, html_ok, filtro_ok, html_diff_ok, and resumo (what
\* extrair_resumo_cobertura reads from the merged artifact, ok = FALSE for None).
\* relatorio_diff is set when the filter succeeds; gerar_relatorio_html then
\* finds the filtered file and creates the directory before it runs the tool,
\* so relatorio_diff.exists() holds however the rendering ends.
no_executar_cobertura(e, amb) ==
    LET caminho_projeto == Get(e, "caminho_projeto", "None")
        projetos_teste == Get(e, "projetos_teste", <<>>)
        arquivos_modificados == Get(e, "arquivos_modificados", <<>>)
    IN IF caminho_projeto = "None" THEN
          [ erros |-> Get(e, "erros", <<>>) \o <<"Caminho do projeto nao fornecido">> ]
       ELSE IF projetos_teste = <<>> THEN
          [ erros |-> Get(e, "erros", <<>>) \o <<"Nenhum projeto de teste encontrado">> ]
       ELSE
       LET arquivos_cobertura == SelectSeq(projetos_teste, LAMBDA p : p \in amb.com_artefato)
       IN IF arquivos_cobertura = <<>> THEN
             [ erros |-> Get(e, "erros", <<>>) \o <<"Nenhum arquivo de cobertura foi gerado">>,
               arquivos_cobertura |-> <<>> ]
          ELSE
          LET mesclado == mesclar_arquivos_cobertura(arquivos_cobertura, amb.mescla)
              relatorio_html_ok == mesclado /\ amb.html_ok
              filtra == arquivos_modificados # <<>> /\ mesclado
              relatorio_diff == filtra /\ amb.filtro_ok
              resumo_cobertura == IF mesclado /\ amb.resumo.ok
                                  THEN [line_coverage |-> amb.resumo.line_coverage]
                                  ELSE <<>>
          IN [ arquivos_cobertura |-> arquivos_cobertura,
               arquivo_cobertura_mesclado |->
                   IF mesclado THEN "coverage_merged.cobertura.xml" ELSE "None",
               arquivo_cobertura_diff |->
                   IF filtra THEN "coverage_diff.cobertura.xml" ELSE "None",
               relatorio_html_geral |->
                   IF relatorio_html_ok THEN "html-report/index.html" ELSE "None",
               relatorio_html_diff |->
                   IF relatorio_diff
                   THEN "html-report-diff/index.html" ELSE "None",
               resumo_cobertura |-> resumo_cobertura,
               percentual_cobertura |-> Get(resumo_cobertura, "line_coverage", 0),
               historico |-> Append(Get(e, "historico", <<>>),
                                    [acao |-> "executar_cobertura",
                                     arquivos_gerados |-> Len(arquivos_cobertura),
                                     relatorio_html |-> relatorio_html_ok,
                                     cobertura_percentual |->
                                         Get(resumo_cobertura, "line_coverage", 0)]) ]

\* ------------------------------------------------------- graph.py: graph

deve_continuar_invertido(e) ==
    IF Get(e, "deve_continuar", FALSE) THEN "fim" ELSE "continuar"

deve_continuar(e) ==
    IF Get(e, "deve_continuar", FALSE) THEN "continuar" ELSE "fim"

incrementar_iteracao_parado(e) ==
    [ iteracao |-> Get(e, "iteracao", 0) ]

incrementar_iteracao(e) ==
    [ iteracao |-> Get(e, "iteracao", 0) + 1 ]

\* The loop edge led back to the environment validation.
ProximoNo_revalida(no, e) ==
    CASE no = "validar_ambiente"     -> "analisar_codigo"
      [] no = "analisar_codigo"      -> "gerar_testes"
      [] no = "gerar_testes"         -> "validar_testes"
      [] no = "validar_testes"       -> "verificar_cobertura"
      [] no = "verificar_cobertura"  -> IF deve_continuar(e) = "continuar"
                                        THEN "incrementar_iteracao" ELSE "END"
      [] no = "incrementar_iteracao" -> "validar_ambiente"

\* The edges criar_grafo_agente adds: the node that follows `no` in state e.
ProximoNo(no, e) ==
    CASE no = "validar_ambiente"     -> "analisar_codigo"
      [] no = "analisar_codigo"      -> "gerar_testes"
      [] no = "gerar_testes"         -> "validar_testes"
      [] no = "validar_testes"       -> "verificar_cobertura"
      [] no = "verificar_cobertura"  -> IF deve_continuar(e) = "continuar"
                                        THEN "incrementar_iteracao" ELSE "END"
      [] no = "incrementar_iteracao" -> "gerar_testes"

\* One superstep of app.stream: node `no` ran and returned update u.
Executar(no, u) ==
    /\ pc = no
    /\ estado' = Aplicar(estado, u)
    /\ pc' = ProximoNo(no, estado')
    /\ nos_executados' = Append(nos_executados, no)
    /\ estado_anterior' = estado
    /\ estado_final' = u
    /\ UNCHANGED fora_agente

\* ------------------------------------------- git.py: changed-line extractor

\* Text is a sequence of one-character strings, a path or a line alike.
\* A ChangeSet is a function from paths to sets of line numbers; <<>> is the
\* empty dict, and <<>> is also arquivo_atual = None (both are falsy).

\* Lines of the diff output the parse is run on.
MaxLinhas == 4

Algarismos == <<"0", "1", "2", "3", "4", "5", "6", "7", "8", "9">>

EhDigito(ch) == \E i \in 1..Len(Algarismos) : Algarismos[i] = ch

ValorDigito(ch) == (CHOOSE i \in 1..Len(Algarismos) : Algarismos[i] = ch) - 1

\* int(texto) of a run of digits.
RECURSIVE int(_)
int(texto) ==
    IF texto = <<>> THEN 0
    ELSE 10 * int(SubSeq(texto, 1, Len(texto) - 1)) + ValorDigito(texto[Len(texto)])

\* The decimal text git prints for n.
RECURSIVE Decimal(_)
Decimal(n) ==
    IF n < 10 THEN <<Algarismos[n + 1]>>
    ELSE Decimal(n \div 10) \o <<Algarismos[(n % 10) + 1]>>

\* A range of a hunk header: git leaves the count out when it is 1.
Intervalo(inicio, quantidade) ==
    Decimal(inicio) \o (IF quantidade = 1 THEN <<>> ELSE <<",">> \o Decimal(quantidade))

\* "@@ -3,2 +c,d @@"
CabecalhoHunk(c, d) ==
    <<"@", "@", " ", "-">> \o Intervalo(3, 2) \o <<" ", "+">> \o Intervalo(c, d)
        \o <<" ", "@", "@">>

\* "+++ b/<caminho>"
MarcadorArquivo(caminho) == <<"+", "+", "+", " ", "b", "/">> \o caminho

\* "+++ /dev/null", the new side of a deleted file
MarcadorNulo == <<"+", "+", "+", " ", "/", "d", "e", "v", "/", "n", "u", "l", "l">>

\* "--- a/A.cs"
MarcadorAntigo == <<"-", "-", "-", " ", "a", "/", "A", ".", "c", "s">>

\* "+++counter;", the added source line "++counter;"
LinhaAdicionada == <<"+", "+", "+", "c", "o", "u", "n", "t", "e", "r", ";">>

\* "A.cs" and "d/A.cs"
Caminhos == { <<"A", ".", "c", "s">>, <<"d", "/", "A", ".", "c", "s">> }

\* New ranges <<start, count>>: three added lines, one line (count left out),
\* and the empty new side of a pure deletion (below line 5, or of a whole file).
Hunks == { <<12, 3>>, <<7, 1>>, <<5, 0>>, <<0, 0>> }

LinhasMarcador == { MarcadorArquivo(p) : p \in Caminhos } \cup { MarcadorNulo }

LinhasHunk == { CabecalhoHunk(h[1], h[2]) : h \in Hunks }

LinhasDiff == LinhasMarcador \cup LinhasHunk \cup { MarcadorAntigo, LinhaAdicionada }

\* The order git keeps: below "+++ /dev/null" every hunk has an empty new
\* side, and an added line stands below a hunk that adds lines.
BemFormado(saida) ==
    \A i \in 1..Len(saida) :
        /\ (saida[i] \in LinhasHunk /\ saida[i] # CabecalhoHunk(0, 0)) =>
              \A j \in 1..(i - 1) :
                  saida[j] = MarcadorNulo =>
                      \E m \in (j + 1)..(i - 1) : saida[m] \in LinhasMarcador
        /\ saida[i] = LinhaAdicionada =>
              /\ i > 1
              /\ \/ saida[i - 1] = LinhaAdicionada
                 \/ saida[i - 1] \in LinhasHunk /\ saida[i - 1] # CabecalhoHunk(0, 0)

SaidasDiff ==
    { saida \in UNION { [1..n -> LinhasDiff] : n \in 0..MaxLinhas } : BemFormado(saida) }

\* linha.startswith(prefixo)
startswith(linha, prefixo) ==
    /\ Len(linha) >= Len(prefixo)
    /\ SubSeq(linha, 1, Len(prefixo)) = prefixo

\* linha[i:]
Fatia(linha, i) == SubSeq(linha, i + 1, Len(linha))

EhEspaco(ch) == ch \in {" ", "\t", "\r"}

\* texto.strip()
RECURSIVE strip(_)
strip(texto) ==
    IF texto = <<>> THEN <<>>
    ELSE IF EhEspaco(texto[1]) THEN strip(Fatia(texto, 1))
    ELSE IF EhEspaco(texto[Len(texto)]) THEN strip(SubSeq(texto, 1, Len(texto) - 1))
    ELSE texto

\* The longest run of digits of linha that starts at index i.
RECURSIVE DigitosDesde(_, _)
DigitosDesde(linha, i) ==
    IF i <= Len(linha) /\ EhDigito(linha[i])
    THEN <<linha[i]>> \o DigitosDesde(linha, i + 1)
    ELSE <<>>

\* re.search(r'\+(\d+)(?:,(\d+))?', linha): the leftmost "+" followed by a
\* digit; grupo2 = <<>> stands for group 2 not taking part in the match.
re_search(linha) ==
    LET inicios == { i \in 1..(Len(linha) - 1) : linha[i] = "+" /\ EhDigito(linha[i + 1]) }
    IN IF inicios = {} THEN [achou |-> FALSE, grupo1 |-> <<>>, grupo2 |-> <<>>]
       ELSE LET i == CHOOSE m \in inicios : \A n \in inicios : m <= n
                grupo1 == DigitosDesde(linha, i + 1)
                j == i + 1 + Len(grupo1)
            IN [ achou |-> TRUE,
                 grupo1 |-> grupo1,
                 grupo2 |-> IF j <= Len(linha) /\ linha[j] = ","
                            THEN DigitosDesde(linha, j + 1) ELSE <<>> ]

\* for num_linha in range(inicio, inicio + quantidade):
\*     linhas_modificadas[arquivo].add(num_linha)
\* on a defaultdict(set): the key comes into being with the first add.
adicionar_intervalo_com_chave(modificadas, arquivo, inicio, quantidade) ==
    [ a \in DOMAIN modificadas \cup {arquivo} |->
        (IF a \in DOMAIN modificadas THEN modificadas[a] ELSE {})
        \cup (IF a = arquivo THEN inicio..(inicio + quantidade - 1) ELSE {}) ]

adicionar_intervalo(modificadas, arquivo, inicio, quantidade) ==
    IF quantidade <= 0 THEN modificadas
    ELSE [ a \in DOMAIN modificadas \cup {arquivo} |->
             (IF a \in DOMAIN modificadas THEN modificadas[a] ELSE {})
             \cup (IF a = arquivo THEN inicio..(inicio + quantidade - 1) ELSE {}) ]

processar_linha_sem_padrao(atual, modificadas, linha) ==
    IF startswith(linha, <<"+", "+", "+">>) THEN
        LET caminho_arquivo == strip(Fatia(linha, 6))
        IN [ arquivo_atual |-> IF caminho_arquivo # <<>>
                                  /\ caminho_arquivo # <<"/", "d", "e", "v", "/", "n", "u", "l", "l">>
                               THEN caminho_arquivo ELSE atual,
             linhas_modificadas |-> modificadas ]
    ELSE IF startswith(linha, <<"@", "@">>) /\ atual # <<>> THEN
        LET match == re_search(linha)
        IN [ arquivo_atual |-> atual,
             linhas_modificadas |->
                 IF match.achou
                 THEN adicionar_intervalo(modificadas, atual, int(match.grupo1),
                                          int(match.grupo2))
                 ELSE modificadas ]
    ELSE [ arquivo_atual |-> atual, linhas_modificadas |-> modificadas ]

\* The body of the parse loop for one line of the output.
processar_linha(atual, modificadas, linha) ==
    IF startswith(linha, <<"+", "+", "+">>) THEN
        LET caminho_arquivo == strip(Fatia(linha, 6))
        IN [ arquivo_atual |-> IF caminho_arquivo # <<>>
                                  /\ caminho_arquivo # <<"/", "d", "e", "v", "/", "n", "u", "l", "l">>
                               THEN caminho_arquivo ELSE atual,
             linhas_modificadas |-> modificadas ]
    ELSE IF startswith(linha, <<"@", "@">>) /\ atual # <<>> THEN
        LET match == re_search(linha)
        IN [ arquivo_atual |-> atual,
             linhas_modificadas |->
                 IF match.achou
                 THEN adicionar_intervalo(modificadas, atual, int(match.grupo1),
                                          IF match.grupo2 # <<>>
                                          THEN int(match.grupo2) ELSE 1)
                 ELSE modificadas ]
    ELSE [ arquivo_atual |-> atual, linhas_modificadas |-> modificadas ]

\* The whole parse loop over the lines from index i on.
RECURSIVE analisar_saida(_, _, _, _)
analisar_saida(atual, modificadas, saida, i) ==
    IF i > Len(saida) THEN modificadas
    ELSE LET r == processar_linha(atual, modificadas, saida[i])
         IN analisar_saida(r.arquivo_atual, r.linhas_modificadas, saida, i + 1)

\* How executar_comando(..., verificar=True) may end: exit code 0, a non-zero
\* exit code (CalledProcessError), no git executable (FileNotFoundError).
ComandosDiff == {"ok", "codigo_nao_zero", "sem_executavel"}

\* The function as a whole: both exceptions end in the except clause.
obter_arquivos_e_linhas_modificadas(comando, saida) ==
    IF comando # "ok" THEN <<>>
    ELSE analisar_saida(<<>>, <<>>, saida, 1)

\* The call of executar_comando and the two locals set after it.
ExecutarDiff ==
    /\ fase_diff = "inicio"
    /\ IF comando_diff = "ok"
       THEN /\ fase_diff' = "lendo"
            /\ UNCHANGED resultado_dict
       ELSE /\ fase_diff' = "retornou"
            /\ resultado_dict' = <<>>
    /\ UNCHANGED <<comando_diff, saida_diff, pos_diff, arquivo_atual, linhas_modificadas>>
    /\ UNCHANGED fora_diff

\* One round of the loop over resultado.stdout.split('\n').
ProcessarLinha ==
    /\ fase_diff = "lendo"
    /\ pos_diff <= Len(saida_diff)
    /\ LET r == processar_linha(arquivo_atual, linhas_modificadas, saida_diff[pos_diff])
       IN /\ arquivo_atual' = r.arquivo_atual
          /\ linhas_modificadas' = r.linhas_modificadas
    /\ pos_diff' = pos_diff + 1
    /\ UNCHANGED <<comando_diff, saida_diff, resultado_dict, fase_diff>>
    /\ UNCHANGED fora_diff

\* return dict(linhas_modificadas)
RetornarDiff ==
    /\ fase_diff = "lendo"
    /\ pos_diff > Len(saida_diff)
    /\ resultado_dict' = linhas_modificadas
    /\ fase_diff' = "retornou"
    /\ UNCHANGED <<comando_diff, saida_diff, pos_diff, arquivo_atual, linhas_modificadas>>
    /\ UNCHANGED fora_diff

\* The extractor at rest, having returned `retorno` for command outcome `comando`.
DiffParado(comando, retorno) ==
    /\ comando_diff = comando
    /\ saida_diff = <<>>
    /\ pos_diff = 1
    /\ arquivo_atual = <<>>
    /\ linhas_modificadas = <<>>
    /\ resultado_dict = retorno
    /\ fase_diff = "retornou"

\* The agent at rest while another function is exercised on its own.
AgenteParado ==
    /\ estado = criar_estado_inicial("class A {}", "proj", 80, 0)
    /\ pc = "END"
    /\ nos_executados = <<>>
    /\ estado_anterior = estado
    /\ estado_iter = estado
    /\ ultima_geracao = "nenhuma"
    /\ ultima_medicao = "nenhuma"
    /\ ambiente = [llm_configurado |-> TRUE, cobertura_medida |-> CoberturaSobe]
    /\ estado_final = "None"
    /\ chamada_llm = [feita |-> FALSE]

\* The root attributes of a report: line-rate in ten-thousandths,
\* lines-covered and lines-valid.
RaizVazia == [line_rate_e4 |-> 0, lines_covered |-> 0, lines_valid |-> 0]

\* A path at which no file exists.
ArquivoAusente ==
    [existe |-> FALSE, valido |-> FALSE, raiz |-> RaizVazia, pacotes |-> <<>>]

\* No summary extracted yet.
SemResumo ==
    [ feito |-> FALSE, ok |-> FALSE, line_coverage_e2 |-> 0, lines_covered |-> 0,
      lines_valid |-> 0, lines_uncovered |-> 0 ]

\* The SDK check, the test runner and the report directory at rest.
SdksParado ==
    /\ frameworks_necessarios = {}
    /\ sdks_instalados = <<>>
    /\ todos_ok = TRUE
    /\ frameworks_faltando = {}
    /\ fase_sdks = "parado"

TestesParado ==
    /\ tipo_coverlet = "collector"
    /\ resultado_build = "ok"
    /\ resultado_teste = "ok"
    /\ artefato_gerado = FALSE
    /\ artefato_antigo = FALSE
    /\ comandos_executados = <<>>
    /\ retorno_testes = "None"
    /\ fase_testes = "parado"

DiscoParado ==
    /\ disco = <<>>
    /\ leituras_mesclado = {}
    /\ ferramenta_mescla = "nao_invocada"
    /\ cobertura_linhas_modificadas = 0
    /\ passos_diff = [filtro |-> "nao_executado", html_diff |-> "nao_executado"]

\* The per-project loop, the base-branch detection at rest; no interruption.
LoopParado ==
    /\ projetos_loop = <<>>
    /\ tipos_coverlet = <<>>
    /\ execucoes_loop = <<>>
    /\ diretorio_saida = <<>>
    /\ arquivos_coletados = <<>>
    /\ pos_loop = 1

BranchParado ==
    /\ resultado_fetch = "ok"
    /\ refs_existentes = {}
    /\ pos_candidata = 1
    /\ branch_base = "None"
    /\ fase_branch = "parado"

SemInterrupcao == interrompido_em = "nenhum"

\* The filter and the summary at rest.
FiltroParado ==
    /\ arquivo_cobertura = ArquivoAusente
    /\ itens_modificados = <<>>
    /\ arquivo_saida = ArquivoAusente
    /\ retorno_filtro = FALSE
    /\ arquivo_refiltrado = ArquivoAusente
    /\ retorno_refiltro = FALSE
    /\ resumo_extraido = SemResumo
    /\ fase_filtro = "parado"

InitDiff ==
    /\ comando_diff \in ComandosDiff
    /\ saida_diff \in (IF comando_diff = "ok" THEN SaidasDiff ELSE {<<>>})
    /\ pos_diff = 1
    /\ arquivo_atual = <<>>
    /\ linhas_modificadas = <<>>
    /\ resultado_dict = <<>>
    /\ fase_diff = "inicio"
    /\ AgenteParado
    /\ FiltroParado
    /\ SdksParado /\ TestesParado /\ DiscoParado
    /\ LoopParado /\ BranchParado /\ SemInterrupcao

NextDiff == ExecutarDiff \/ ProcessarLinha \/ RetornarDiff

SpecDiff == InitDiff /\ [][NextDiff]_vars

\* --------------------------------------------- cobertura.py: diff filter

\* A Cobertura report is a sequence of packages, a package a sequence of
\* classes, a class [filename, metodos, linhas]: metodos is the sequence of
\* <method> elements, each the sequence of line numbers of its own
\* <lines><line/>, and linhas the numbers of the <line> elements of the
\* <lines> child of the class. A dict is the sequence of its items.

\* Packages of the report and classes of a package.
MaxPacotes == 1
MaxClasses == 2

\* Path(caminho).name: the text after the last "/".
Path_name(caminho) ==
    LET barras == { i \in 1..Len(caminho) : caminho[i] = "/" }
    IN IF barras = {} THEN caminho
       ELSE Fatia(caminho, CHOOSE i \in barras : \A j \in barras : j <= i)

RECURSIVE Concatenar(_)
Concatenar(seqs) ==
    IF seqs = <<>> THEN <<>> ELSE Head(seqs) \o Concatenar(Tail(seqs))

\* The class the coverage tool writes for a file: the lines of the class are
\* the lines of its methods.
Classe(filename, metodos) ==
    [ filename |-> filename, metodos |-> metodos, linhas |-> Concatenar(metodos) ]

\* "A.cs", "d/A.cs" and "B.cs"
ArquivosRelatorio == Caminhos \cup { <<"B", ".", "c", "s">> }

MetodosRelatorio == { << <<7>> >>, << <<12, 13>>, <<20>> >> }

ClassesRelatorio == { Classe(f, m) : f \in ArquivosRelatorio, m \in MetodosRelatorio }

PacotesRelatorio == UNION { [1..n -> ClassesRelatorio] : n \in 0..MaxClasses }

\* The hits attribute of a <line>: the tests reach every line but line 13.
LinhaCoberta(n) == n # 13

\* The class-level <line> elements of a report, in document order.
LinhasRelatorio(pacotes) ==
    Concatenar([ i \in 1..Len(pacotes) |->
        Concatenar([ j \in 1..Len(pacotes[i]) |-> pacotes[i][j].linhas ]) ])

\* The root the coverage tool writes for a report: lines-valid counts its
\* lines, lines-covered those with a hit, line-rate is their ratio cut to
\* four decimals.
RaizRelatorio(pacotes) ==
    LET v == Len(LinhasRelatorio(pacotes))
        c == Len(SelectSeq(LinhasRelatorio(pacotes), LinhaCoberta))
    IN [ line_rate_e4 |-> IF v = 0 THEN 0 ELSE (10000 * c) \div v,
         lines_covered |-> c,
         lines_valid |-> v ]

\* The file at arquivo_cobertura: missing, not parseable, or a report.
ArquivosCobertura ==
    { ArquivoAusente,
      [existe |-> TRUE, valido |-> FALSE, raiz |-> RaizVazia, pacotes |-> <<>>] }
    \cup { [existe |-> TRUE, valido |-> TRUE, raiz |-> RaizRelatorio(ps), pacotes |-> ps] :
              ps \in UNION { [1..n -> PacotesRelatorio] : n \in 1..MaxPacotes } }

ConjuntosLinhas == { {7}, {12, 13, 14} }

\* ChangeSets of up to two files, as the items of the dict in insertion order.
ChangeSets ==
    { <<>> }
    \cup { << [caminho |-> a, linhas |-> l] >> : a \in ArquivosRelatorio, l \in ConjuntosLinhas }
    \cup UNION { { << [caminho |-> a, linhas |-> l], [caminho |-> b, linhas |-> k] >> :
                      b \in Caminhos \ {a},
                      l \in ConjuntosLinhas, k \in ConjuntosLinhas } :
                  a \in ArquivosRelatorio }

\* arquivos_mod_normalizados after the loop over the items: a later item
\* with the same file name replaces the earlier one.
RECURSIVE normalizar(_)
normalizar(itens) ==
    IF itens = <<>> THEN <<>>
    ELSE LET item == itens[Len(itens)]
         IN (Path_name(item.caminho) :> item.linhas)
            @@ normalizar(SubSeq(itens, 1, Len(itens) - 1))

\* The lines left when the loop runs over the live list of children:
\* after a removal the iterator steps over the element that moved up.
RECURSIVE remover_ao_vivo(_, _, _)
remover_ao_vivo(linhas, i, modificadas) ==
    IF i > Len(linhas) THEN linhas
    ELSE IF linhas[i] \notin modificadas
         THEN remover_ao_vivo(SubSeq(linhas, 1, i - 1) \o SubSeq(linhas, i + 1, Len(linhas)),
                              i + 1, modificadas)
         ELSE remover_ao_vivo(linhas, i + 1, modificadas)

filtrar_classe_iteracao_viva(classe, normalizados) ==
    [ classe EXCEPT !.linhas =
        remover_ao_vivo(@, 1, normalizados[Path_name(classe.filename)]) ]

\* The loop over classe.findall('lines/line') for one class that matched.
filtrar_classe(classe, normalizados) ==
    [ classe EXCEPT !.linhas =
        SelectSeq(@, LAMBDA n : n \in normalizados[Path_name(classe.filename)]) ]

\* The loop over package.findall('classes/class') for one package.
filtrar_pacote(pacote, normalizados) ==
    LET mantidas == SelectSeq(pacote,
                        LAMBDA c : Path_name(c.filename) \in DOMAIN normalizados)
    IN [ i \in 1..Len(mantidas) |-> filtrar_classe(mantidas[i], normalizados) ]

\* The function as a whole: the value returned, whether arquivo_saida is
\* written, and the tree written (the root element is written as read).
filtrar_cobertura_por_diff(arquivo, itens) ==
    IF ~arquivo.existe THEN [retorno |-> FALSE, escrito |-> FALSE, arvore |-> ArquivoAusente]
    ELSE IF itens = <<>> THEN [retorno |-> FALSE, escrito |-> FALSE, arvore |-> ArquivoAusente]
    ELSE IF ~arquivo.valido THEN [retorno |-> FALSE, escrito |-> FALSE, arvore |-> ArquivoAusente]
    ELSE LET normalizados == normalizar(itens)
         IN [ retorno |-> TRUE,
              escrito |-> TRUE,
              arvore |-> [ existe |-> TRUE,
                           valido |-> TRUE,
                           raiz |-> arquivo.raiz,
                           pacotes |-> [ i \in 1..Len(arquivo.pacotes) |->
                                filtrar_pacote(arquivo.pacotes[i], normalizados) ] ] ]

\* extrair_resumo_cobertura: None (ok = FALSE) for a missing or unparseable
\* file; line_rate * 100 in hundredths of a percent is the line-rate
\* attribute in ten-thousandths. The branch rate is left out.
extrair_resumo_cobertura(arquivo) ==
    IF ~arquivo.existe \/ ~arquivo.valido
    THEN [ feito |-> TRUE, ok |-> FALSE, line_coverage_e2 |-> 0, lines_covered |-> 0,
           lines_valid |-> 0, lines_uncovered |-> 0 ]
    ELSE [ feito |-> TRUE,
           ok |-> TRUE,
           line_coverage_e2 |-> (arquivo.raiz.line_rate_e4 * 100) \div 100,
           lines_covered |-> arquivo.raiz.lines_covered,
           lines_valid |-> arquivo.raiz.lines_valid,
           lines_uncovered |-> arquivo.raiz.lines_valid - arquivo.raiz.lines_covered ]

FiltrarCobertura_no_lugar ==
    /\ fase_filtro = "inicio"
    /\ LET r == filtrar_cobertura_por_diff(arquivo_cobertura, itens_modificados)
       IN /\ retorno_filtro' = r.retorno
          /\ arquivo_saida' = IF r.escrito THEN r.arvore ELSE arquivo_saida
          /\ arquivo_cobertura' = IF r.escrito THEN r.arvore ELSE arquivo_cobertura
    /\ fase_filtro' = "retornou"
    /\ UNCHANGED <<itens_modificados, arquivo_refiltrado, retorno_refiltro, resumo_extraido>>
    /\ UNCHANGED fora_filtro

\* A call of the filter on arquivo_cobertura, writing arquivo_saida.
FiltrarCobertura ==
    /\ fase_filtro = "inicio"
    /\ LET r == filtrar_cobertura_por_diff(arquivo_cobertura, itens_modificados)
       IN /\ retorno_filtro' = r.retorno
          /\ arquivo_saida' = IF r.escrito THEN r.arvore ELSE arquivo_saida
    /\ fase_filtro' = "retornou"
    /\ UNCHANGED <<arquivo_cobertura, itens_modificados, arquivo_refiltrado,
                   retorno_refiltro, resumo_extraido>>
    /\ UNCHANGED fora_filtro

\* A second call, on the file the first one wrote, with the same ChangeSet,
\* writing a third file.
FiltrarSaida ==
    /\ fase_filtro = "retornou"
    /\ retorno_filtro
    /\ LET r == filtrar_cobertura_por_diff(arquivo_saida, itens_modificados)
       IN /\ retorno_refiltro' = r.retorno
          /\ arquivo_refiltrado' = IF r.escrito THEN r.arvore ELSE arquivo_refiltrado
    /\ fase_filtro' = "refiltrou"
    /\ UNCHANGED <<arquivo_cobertura, itens_modificados, arquivo_saida,
                   retorno_filtro, resumo_extraido>>
    /\ UNCHANGED fora_filtro

\* A call of extrair_resumo_cobertura on arquivo_cobertura.
ExtrairResumo ==
    /\ fase_filtro # "parado"
    /\ ~resumo_extraido.feito
    /\ resumo_extraido' = extrair_resumo_cobertura(arquivo_cobertura)
    /\ UNCHANGED <<arquivo_cobertura, itens_modificados, arquivo_saida, retorno_filtro,
                   arquivo_refiltrado, retorno_refiltro, fase_filtro>>
    /\ UNCHANGED fora_filtro

InitFiltro ==
    /\ arquivo_cobertura \in ArquivosCobertura
    /\ itens_modificados \in ChangeSets
    /\ arquivo_saida = ArquivoAusente
    /\ retorno_filtro = FALSE
    /\ arquivo_refiltrado = ArquivoAusente
    /\ retorno_refiltro = FALSE
    /\ resumo_extraido = SemResumo
    /\ fase_filtro = "inicio"
    /\ AgenteParado
    /\ DiffParado("ok", <<>>)
    /\ SdksParado /\ TestesParado /\ DiscoParado
    /\ LoopParado /\ BranchParado /\ SemInterrupcao

NextFiltro == FiltrarCobertura \/ FiltrarSaida \/ ExtrairResumo

SpecFiltro == InitFiltro /\ [][NextFiltro]_vars

\* ------------------------------------------ cobertura.py: summary harness

\* The largest lines-valid of the artifacts summarised.
MaxValidas == 60

\* The artifacts the coverage tool writes for c covered lines of v: its
\* line-rate attribute is c/v cut to four decimals.
ArtefatosResumo ==
    { [ existe |-> TRUE, valido |-> TRUE,
        raiz |-> [ line_rate_e4 |-> (10000 * cv[1]) \div cv[2],
                   lines_covered |-> cv[1], lines_valid |-> cv[2] ],
        pacotes |-> <<>> ] :
      cv \in { x \in (0..MaxValidas) \X (1..MaxValidas) : x[1] <= x[2] } }

InitResumo ==
    /\ arquivo_cobertura \in ArtefatosResumo
    /\ itens_modificados = <<>>
    /\ arquivo_saida = ArquivoAusente
    /\ retorno_filtro = FALSE
    /\ arquivo_refiltrado = ArquivoAusente
    /\ retorno_refiltro = FALSE
    /\ resumo_extraido = SemResumo
    /\ fase_filtro = "resumo"
    /\ AgenteParado
    /\ DiffParado("ok", <<>>)
    /\ SdksParado /\ TestesParado /\ DiscoParado
    /\ LoopParado /\ BranchParado /\ SemInterrupcao

NextResumo == ExtrairResumo

SpecResumo == InitResumo /\ [][NextResumo]_vars

\* ------------------------------------------------ dotnet.py: SDK check

\* The <TargetFramework> texts obter_target_framework reads from the build
\* descriptors: "net8.0", "Net8.0", "net6.0", "netcoreapp3.1", "net472".
Net80 == <<"n", "e", "t", "8", ".", "0">>
Net80Maiuscula == <<"N", "e", "t", "8", ".", "0">>
Net60 == <<"n", "e", "t", "6", ".", "0">>
NetCoreApp31 == <<"n", "e", "t", "c", "o", "r", "e", "a", "p", "p", "3", ".", "1">>
Net472 == <<"n", "e", "t", "4", "7", "2">>

TargetFrameworks == { Net80, Net80Maiuscula, Net60, NetCoreApp31, Net472 }

\* The versions listar_sdks_instalados reads from `dotnet --list-sdks`:
\* "8.0.100", "6.0.420", "3.1.426", "2.1.818".
Sdk8 == <<"8", ".", "0", ".", "1", "0", "0">>
Sdk6 == <<"6", ".", "0", ".", "4", "2", "0">>
Sdk3 == <<"3", ".", "1", ".", "4", "2", "6">>
Sdk2 == <<"2", ".", "1", ".", "8", "1", "8">>

ListasSdks ==
    { <<>>, <<Sdk8>>, <<Sdk6>>, <<Sdk6, Sdk8>>, <<Sdk2>>, <<Sdk3>>,
      <<Sdk2, Sdk8>>, <<Sdk3, Sdk6>> }

\* texto.lower(), on the letters the target frameworks are written with.
lower(texto) ==
    [ i \in 1..Len(texto) |->
        CASE texto[i] = "N" -> "n"
          [] texto[i] = "E" -> "e"
          [] texto[i] = "T" -> "t"
          [] OTHER -> texto[i] ]

\* sdk.split('.')[0]
RECURSIVE primeiro_campo(_)
primeiro_campo(sdk) ==
    IF sdk = <<>> \/ sdk[1] = "." THEN <<>>
    ELSE <<sdk[1]>> \o primeiro_campo(Fatia(sdk, 1))

\* The set sdks_majors: int(sdk.split('.')[0]) of every installed version, a
\* version whose first field is not a number being skipped (ValueError).
majors_dos_sdks(sdks) ==
    { int(primeiro_campo(sdks[i])) :
        i \in { k \in 1..Len(sdks) :
                  /\ primeiro_campo(sdks[k]) # <<>>
                  /\ \A n \in 1..Len(primeiro_campo(sdks[k])) :
                         EhDigito(primeiro_campo(sdks[k])[n]) } }

\* re.search(r'net(\d+)', framework.lower()): the leftmost "net" followed by a
\* digit; the group is the run of digits after it.
re_search_net(framework) ==
    LET texto == lower(framework)
        inicios == { i \in 1..(Len(texto) - 3) :
                       /\ texto[i] = "n" /\ texto[i + 1] = "e" /\ texto[i + 2] = "t"
                       /\ EhDigito(texto[i + 3]) }
    IN IF inicios = {} THEN [achou |-> FALSE, grupo1 |-> <<>>]
       ELSE LET i == CHOOSE m \in inicios : \A n \in inicios : m <= n
            IN [achou |-> TRUE, grupo1 |-> DigitosDesde(texto, i + 3)]

\* The test of one required framework: TRUE when it is appended to
\* frameworks_faltando. A framework the pattern does not match is passed over.
framework_faltando(framework, sdks_majors) ==
    LET match == re_search_net(framework)
        framework_major == int(match.grupo1)
    IN /\ match.achou
       /\ ~(framework_major < 5 /\ \E m \in sdks_majors : m >= 5)
       /\ framework_major \notin sdks_majors

\* verificar_sdks_necessarios, from the set of frameworks the descriptors
\* declare and the list of installed versions.
verificar_sdks_necessarios(frameworks, sdks) ==
    IF frameworks = {} THEN [todos_ok |-> TRUE, frameworks_faltando |-> {}]
    ELSE LET sdks_majors == majors_dos_sdks(sdks)
             faltando == { f \in frameworks : framework_faltando(f, sdks_majors) }
         IN [todos_ok |-> faltando = {}, frameworks_faltando |-> faltando]

VerificarSdks ==
    /\ fase_sdks = "inicio"
    /\ LET r == verificar_sdks_necessarios(frameworks_necessarios, sdks_instalados)
       IN /\ todos_ok' = r.todos_ok
          /\ frameworks_faltando' = r.frameworks_faltando
    /\ fase_sdks' = "retornou"
    /\ UNCHANGED <<frameworks_necessarios, sdks_instalados>>
    /\ UNCHANGED fora_sdks

InitSdks ==
    /\ frameworks_necessarios \in SUBSET TargetFrameworks
    /\ sdks_instalados \in ListasSdks
    /\ todos_ok = TRUE
    /\ frameworks_faltando = {}
    /\ fase_sdks = "inicio"
    /\ AgenteParado
    /\ DiffParado("ok", <<>>)
    /\ FiltroParado
    /\ TestesParado /\ DiscoParado
    /\ LoopParado /\ BranchParado /\ SemInterrupcao

NextSdks == VerificarSdks

SpecSdks == InitSdks /\ [][NextSdks]_vars

\* --------------------------------------------- cobertura.py: test runner

\* How executar_comando ends for the build and for the test command: exit
\* code 0, a non-zero exit code (for the tests: some test failed), or an
\* exception (the tool cannot be started).
ResultadosBuild == {"ok", "falha", "excecao"}
ResultadosTeste == {"ok", "codigo_nao_zero", "excecao"}

\* The build: `dotnet build` is the first command; a non-zero exit code or an
\* exception returns None.
CompilarProjeto_sem_verificar ==
    /\ fase_testes = "inicio"
    /\ comandos_executados' = Append(comandos_executados, "build")
    /\ fase_testes' = "compilado"
    /\ UNCHANGED <<tipo_coverlet, resultado_build, resultado_teste, artefato_gerado,
                   artefato_antigo, retorno_testes>>
    /\ UNCHANGED fora_testes

CompilarProjeto ==
    /\ fase_testes = "inicio"
    /\ comandos_executados' = Append(comandos_executados, "build")
    /\ IF resultado_build = "ok"
       THEN /\ fase_testes' = "compilado"
            /\ UNCHANGED retorno_testes
       ELSE /\ fase_testes' = "retornou"
            /\ retorno_testes' = "None"
    /\ UNCHANGED <<tipo_coverlet, resultado_build, resultado_teste, artefato_gerado,
                   artefato_antigo>>
    /\ UNCHANGED fora_testes

\* The test command of either strategy, run with --no-build; any exit code
\* other than 0 and any exception return None.
ExecutarTestes ==
    /\ fase_testes = "compilado"
    /\ comandos_executados' = Append(comandos_executados, "test")
    /\ IF resultado_teste = "ok"
       THEN /\ fase_testes' = "testado"
            /\ UNCHANGED retorno_testes
       ELSE /\ fase_testes' = "retornou"
            /\ retorno_testes' = "None"
    /\ UNCHANGED <<tipo_coverlet, resultado_build, resultado_teste, artefato_gerado,
                   artefato_antigo>>
    /\ UNCHANGED fora_testes

\* After exit code 0: the collector strategy takes the first
\* coverage.cobertura.xml found under the output directory and moves it to the
\* standardized name, the build-integrated strategy asks whether the
\* standardized file exists. Either finds a file this run wrote or one an
\* earlier run left behind.
ColetarArtefato ==
    /\ fase_testes = "testado"
    /\ retorno_testes' = (IF artefato_gerado \/ artefato_antigo
                          THEN "arquivo_cobertura" ELSE "None")
    /\ fase_testes' = "retornou"
    /\ UNCHANGED <<tipo_coverlet, resultado_build, resultado_teste, artefato_gerado,
                   artefato_antigo, comandos_executados>>
    /\ UNCHANGED fora_testes

\* A test command that cannot be started writes no coverage file.
InitTestes ==
    /\ tipo_coverlet \in {"collector", "msbuild"}
    /\ resultado_build \in ResultadosBuild
    /\ resultado_teste \in ResultadosTeste
    /\ artefato_gerado \in BOOLEAN
    /\ resultado_teste = "excecao" => ~artefato_gerado
    /\ artefato_antigo \in BOOLEAN
    /\ comandos_executados = <<>>
    /\ retorno_testes = "None"
    /\ fase_testes = "inicio"
    /\ AgenteParado
    /\ DiffParado("ok", <<>>)
    /\ FiltroParado
    /\ SdksParado /\ DiscoParado
    /\ LoopParado /\ BranchParado /\ SemInterrupcao

NextTestes == CompilarProjeto \/ ExecutarTestes \/ ColetarArtefato

SpecTestes == InitTestes /\ [][NextTestes]_vars

\* ------------------------------------------- git.py: base-branch detection

candidatas_locais_primeiro == <<"main", "master", "origin/main", "origin/master">>

\* The references tried, in this order.
candidatas == <<"origin/main", "origin/master", "main", "master">>

\* How `git fetch --all` may end: exit code 0, a non-zero exit code (no
\* remote reachable), or FileNotFoundError (no git executable).
ResultadosFetch == {"ok", "codigo_nao_zero", "sem_executavel"}

\* The references `git rev-parse --verify` may resolve in the repository.
RefsRepositorio == {"origin/main", "origin/master", "main", "master", "develop"}

\* The fetch: its exit code is not looked at; the exception of a missing
\* executable ends in the except clause, which returns None.
BuscarRefs ==
    /\ fase_branch = "inicio"
    /\ IF resultado_fetch = "sem_executavel"
       THEN /\ branch_base' = "None"
            /\ fase_branch' = "retornou"
       ELSE /\ fase_branch' = "verificando"
            /\ UNCHANGED branch_base
    /\ UNCHANGED <<resultado_fetch, refs_existentes, pos_candidata>>
    /\ UNCHANGED fora_branch

\* One pass of the loop over candidatas: the candidate is returned when
\* rev-parse exits with code 0.
VerificarCandidata ==
    /\ fase_branch = "verificando"
    /\ pos_candidata <= Len(candidatas)
    /\ IF candidatas[pos_candidata] \in refs_existentes
       THEN /\ branch_base' = candidatas[pos_candidata]
            /\ fase_branch' = "retornou"
            /\ UNCHANGED pos_candidata
       ELSE /\ pos_candidata' = pos_candidata + 1
            /\ UNCHANGED <<branch_base, fase_branch>>
    /\ UNCHANGED <<resultado_fetch, refs_existentes>>
    /\ UNCHANGED fora_branch

\* The return after the loop.
RetornarSemBranch ==
    /\ fase_branch = "verificando"
    /\ pos_candidata > Len(candidatas)
    /\ branch_base' = "None"
    /\ fase_branch' = "retornou"
    /\ UNCHANGED <<resultado_fetch, refs_existentes, pos_candidata>>
    /\ UNCHANGED fora_branch

\* Without a git executable no reference resolves.
InitBranch ==
    /\ resultado_fetch \in ResultadosFetch
    /\ refs_existentes \in SUBSET RefsRepositorio
    /\ resultado_fetch = "sem_executavel" => refs_existentes = {}
    /\ pos_candidata = 1
    /\ branch_base = "None"
    /\ fase_branch = "inicio"
    /\ AgenteParado
    /\ DiffParado("ok", <<>>)
    /\ FiltroParado
    /\ SdksParado /\ TestesParado /\ DiscoParado
    /\ LoopParado /\ SemInterrupcao

NextBranch == BuscarRefs \/ VerificarCandidata \/ RetornarSemBranch

SpecBranch == InitBranch /\ [][NextBranch]_vars

\* What the probes of no_validar_ambiente may find.
Ambientes ==
    [ eh_repositorio : BOOLEAN,
      arquivos_modificados : { <<>>, [a |-> {12, 13, 14}] },
      arquivos_csproj : { <<>>, <<"App.csproj", "App.Tests.csproj">> },
      projetos_teste : { <<"App.Tests.csproj">> },
      dotnet_instalado : BOOLEAN ]

\* -------------------------------------------------------------- actions

ValidarAmbiente ==
    \E amb \in Ambientes :
        /\ Executar("validar_ambiente", no_validar_ambiente(estado, amb))
        /\ UNCHANGED <<estado_iter, ultima_geracao, ultima_medicao, ambiente, chamada_llm>>

AnalisarCodigo ==
    /\ Executar("analisar_codigo", no_analisar_codigo(estado))
    /\ UNCHANGED <<estado_iter, ultima_geracao, ultima_medicao, ambiente, chamada_llm>>

GerarTestes ==
    \E resposta \in Respostas(estado.iteracao) :
        /\ Executar("gerar_testes",
                    no_gerar_testes(estado, ambiente.llm_configurado, resposta))
        /\ estado_iter' = estado
        /\ ultima_geracao' =
              IF estado.codigo_fonte = "" THEN "sem_codigo"
              ELSE IF ~ambiente.llm_configurado THEN "llm_nao_configurado"
              ELSE IF resposta.tipo = "teste" THEN "teste"
              ELSE "falha_colaborador"
        /\ chamada_llm' = pedido_gerar_teste(estado, ambiente.llm_configurado)
        /\ UNCHANGED <<ultima_medicao, ambiente>>

ValidarTestes ==
    /\ Executar("validar_testes", no_validar_testes(estado))
    /\ UNCHANGED <<estado_iter, ultima_geracao, ultima_medicao, ambiente, chamada_llm>>

VerificarCobertura ==
    /\ Executar("verificar_cobertura", no_verificar_cobertura(estado))
    /\ UNCHANGED <<estado_iter, ultima_geracao, ultima_medicao, ambiente, chamada_llm>>

IncrementarIteracao ==
    /\ Executar("incrementar_iteracao", incrementar_iteracao(estado))
    /\ UNCHANGED <<estado_iter, ultima_geracao, ultima_medicao, ambiente, chamada_llm>>

Init ==
    /\ \E codigo_fonte \in {"", "class A {}"}, caminho_projeto \in {"None", "proj"},
          meta \in MetaVals, max \in 0..MaxIter :
          estado = criar_estado_inicial(codigo_fonte, caminho_projeto, meta, max)
    /\ pc = "validar_ambiente"
    /\ nos_executados = <<>>
    /\ estado_anterior = estado
    /\ estado_iter = estado
    /\ ultima_geracao = "nenhuma"
    /\ ultima_medicao = "nenhuma"
    /\ ambiente \in [llm_configurado : BOOLEAN, cobertura_medida : Cenarios]
    /\ estado_final = "None"
    /\ chamada_llm = [feita |-> FALSE]
    /\ DiffParado("ok", <<>>)
    /\ FiltroParado
    /\ SdksParado /\ TestesParado /\ DiscoParado
    /\ LoopParado /\ BranchParado /\ SemInterrupcao

Next ==
    \/ ValidarAmbiente
    \/ AnalisarCodigo
    \/ GerarTestes
    \/ ValidarTestes
    \/ VerificarCobertura
    \/ IncrementarIteracao

Spec == Init /\ [][Next]_vars

\* app.stream runs the graph to completion: every node it schedules returns.
LiveSpec == Spec /\ WF_vars(Next)

\* ------------------------------------------- main.py: a user interruption

\* Python's issubclass over the exception classes the handlers here name.
issubclass(excecao, classe) ==
    \/ classe = excecao
    \/ classe = "BaseException"
    \/ classe = "Exception" /\ excecao \in {"FileNotFoundError", "ValueError"}

handlers_captura_tudo(no) ==
    IF no = "gerar_testes" THEN <<"Exception", "BaseException">> ELSE <<>>

\* The classes named by the `except` clauses around the code a node runs,
\* innermost first: those of the helpers it calls, then the node's own.
handlers(no) ==
    CASE no = "validar_ambiente"    -> <<"FileNotFoundError", "Exception">>
      [] no = "gerar_testes"        -> <<"Exception", "Exception">>
      [] no = "verificar_cobertura" -> <<"Exception">>
      [] OTHER                      -> <<>>

\* The `except` clauses of main() around app.stream, in order.
handlers_main == <<"KeyboardInterrupt", "Exception">>

\* Whether one of the handlers catches the exception.
capturada(excecao, pilha) ==
    \E i \in 1..Len(pilha) : issubclass(excecao, pilha[i])

\* The user presses Ctrl-C while node pc runs: KeyboardInterrupt is raised in
\* it. A handler of the node that catches it turns it into the node's error
\* update and the graph goes on; otherwise it leaves app.stream, no chunk is
\* yielded, and a handler of main() ends the run with sys.exit(1).
Interromper ==
    /\ pc \notin {"END", "interrompido"}
    /\ interrompido_em = "nenhum"
    /\ interrompido_em' = pc
    /\ IF capturada("KeyboardInterrupt", handlers(pc))
       THEN LET u == [ erros |-> Get(estado, "erros", <<>>)
                                  \o <<"Erro ao gerar testes: ">> ]
            IN /\ estado' = Aplicar(estado, u)
               /\ pc' = ProximoNo(pc, estado')
               /\ nos_executados' = Append(nos_executados, pc)
               /\ estado_anterior' = estado
               /\ estado_final' = u
       ELSE /\ capturada("KeyboardInterrupt", handlers_main)
            /\ pc' = "interrompido"
            /\ UNCHANGED <<estado, nos_executados, estado_anterior, estado_final>>
    /\ UNCHANGED <<estado_iter, ultima_geracao, ultima_medicao, ambiente, chamada_llm>>
    /\ UNCHANGED fora_interrupcao

NextInterrupcao ==
    \/ Next
    \/ Interromper

SpecInterrupcao == Init /\ [][NextInterrupcao]_vars

\* What main prints and saves after the loop: read from estado_final with
\* the defaults of its get() calls.
ResultadosFinais ==
    [ testes_gerados |-> Get(estado_final, "testes_gerados", <<>>),
      cobertura |-> Get(estado_final, "percentual_cobertura", 0),
      erros |-> Get(estado_final, "erros", <<>>) ]

\* ------------------------------------------------ coverage-node harness

\* Calls of no_executar_cobertura the harness makes in a row.
MaxMedicoes == 2

ProjetosTeste == {<<>>, <<"A.Tests.csproj">>, <<"A.Tests.csproj", "B.Tests.csproj">>}

\* What the build, test, merge, render and summary tools may do in one call.
Medicoes ==
    [ com_artefato : SUBSET {"A.Tests.csproj", "B.Tests.csproj"},
      mescla : ResultadosFerramenta,
      html_ok : BOOLEAN,
      filtro_ok : BOOLEAN,
      html_diff_ok : BOOLEAN,
      resumo : {[ok |-> FALSE, line_coverage |-> 0, linhas_modificadas |-> 0],
                [ok |-> TRUE, line_coverage |-> 40, linhas_modificadas |-> 100],
                [ok |-> TRUE, line_coverage |-> 82, linhas_modificadas |-> 50]} ]

\* The standardized name of a project's coverage artifact.
nome_arquivo(projeto) ==
    CASE projeto = "A.Tests.csproj" -> "A.Tests_coverage.cobertura.xml"
      [] projeto = "B.Tests.csproj" -> "B.Tests_coverage.cobertura.xml"
      [] projeto = "a/Tests.csproj" -> "Tests_coverage.cobertura.xml"
      [] projeto = "b/Tests.csproj" -> "Tests_coverage.cobertura.xml"

\* The report directory after the test runs of measurement n: each project
\* whose run returns an artifact has it under its standardized name, the
\* other files stay as they were.
artefatos_no_disco(d, arquivos_cobertura, n) ==
    [ f \in DOMAIN d \cup { nome_arquivo(arquivos_cobertura[i]) :
                                i \in 1..Len(arquivos_cobertura) } |->
        IF \E i \in 1..Len(arquivos_cobertura) : nome_arquivo(arquivos_cobertura[i]) = f
        THEN [ medicao |-> n,
               fontes |-> { arquivos_cobertura[i] :
                              i \in { k \in 1..Len(arquivos_cobertura) :
                                        nome_arquivo(arquivos_cobertura[k]) = f } } ]
        ELSE d[f] ]

\* The directory after mesclar_arquivos_cobertura: shutil.move of the only
\* report in place of the copy.
mesclar_no_disco_move(d, arquivos_cobertura, ferramenta, n) ==
    IF Len(arquivos_cobertura) = 1
    THEN [ f \in (DOMAIN d \ {nome_arquivo(arquivos_cobertura[1])})
                   \cup {"coverage_merged.cobertura.xml"} |->
             IF f = "coverage_merged.cobertura.xml"
             THEN d[nome_arquivo(arquivos_cobertura[1])] ELSE d[f] ]
    ELSE d

\* The directory after mesclar_arquivos_cobertura: nothing written for an
\* empty list, shutil.copy of the only report, or the tool's Cobertura.xml
\* moved to the output name.
mesclar_no_disco(d, arquivos_cobertura, ferramenta, n) ==
    IF arquivos_cobertura = <<>> THEN d
    ELSE IF Len(arquivos_cobertura) = 1
    THEN [ f \in DOMAIN d \cup {"coverage_merged.cobertura.xml"} |->
             IF f = "coverage_merged.cobertura.xml"
             THEN d[nome_arquivo(arquivos_cobertura[1])] ELSE d[f] ]
    ELSE IF ferramenta = "ok"
    THEN [ f \in DOMAIN d \cup {"coverage_merged.cobertura.xml"} |->
             IF f = "coverage_merged.cobertura.xml"
             THEN [ medicao |-> n,
                    fontes |-> { arquivos_cobertura[i] : i \in 1..Len(arquivos_cobertura) } ]
             ELSE d[f] ]
    ELSE d

\* The steps after the merge that read the merged report whenever the file
\* is on disk, whatever the merge returned.
leituras_do_mesclado_se_existe(mesclado, arquivos_modificados, d) ==
    IF "coverage_merged.cobertura.xml" \in DOMAIN d
    THEN { [passo |-> p, conteudo |-> d["coverage_merged.cobertura.xml"]] :
             p \in {"html", "resumo"}
                   \cup (IF arquivos_modificados # <<>> THEN {"filtro"} ELSE {}) }
    ELSE {}

\* The steps after the merge that read the merged report, and what they
\* read: each is guarded by `arquivo_mesclado and arquivo_mesclado.exists()`,
\* arquivo_mesclado being None after a failed merge.
leituras_do_mesclado(mesclado, arquivos_modificados, d) ==
    IF mesclado /\ "coverage_merged.cobertura.xml" \in DOMAIN d
    THEN { [passo |-> p, conteudo |-> d["coverage_merged.cobertura.xml"]] :
             p \in {"html", "resumo"}
                   \cup (IF arquivos_modificados # <<>> THEN {"filtro"} ELSE {}) }
    ELSE {}

\* What measurement n does to the report directory.
efeitos_no_disco(e, amb, d, n) ==
    LET projetos_teste == Get(e, "projetos_teste", <<>>)
        arquivos_cobertura == SelectSeq(projetos_teste, LAMBDA p : p \in amb.com_artefato)
        mesclado == mesclar_arquivos_cobertura(arquivos_cobertura, amb.mescla)
        d1 == artefatos_no_disco(d, arquivos_cobertura, n)
        d2 == mesclar_no_disco(d1, arquivos_cobertura, amb.mescla, n)
    IN IF Get(e, "caminho_projeto", "None") = "None" \/ projetos_teste = <<>>
       THEN [ disco |-> d, leituras |-> {}, ferramenta |-> "nao_invocada",
              linhas_modificadas |-> 0,
              passos |-> [filtro |-> "nao_executado", html_diff |-> "nao_executado"] ]
       ELSE [ disco |-> d2,
              leituras |-> leituras_do_mesclado(mesclado,
                                                Get(e, "arquivos_modificados", <<>>), d2),
              ferramenta |-> IF Len(arquivos_cobertura) >= 2 THEN amb.mescla
                             ELSE "nao_invocada",
              linhas_modificadas |-> IF mesclado /\ amb.resumo.ok
                                     THEN amb.resumo.linhas_modificadas ELSE 0,
              passos |->
                  LET filtra == /\ arquivos_cobertura # <<>>
                                /\ Get(e, "arquivos_modificados", <<>>) # <<>>
                                /\ mesclado
                  IN [ filtro |-> IF ~filtra THEN "nao_executado"
                                  ELSE IF amb.filtro_ok THEN "sucesso" ELSE "falha",
                       html_diff |-> IF ~(filtra /\ amb.filtro_ok) THEN "nao_executado"
                                     ELSE IF amb.html_diff_ok THEN "sucesso" ELSE "falha" ] ]

\* Which way a call of no_executar_cobertura went.
ResultadoMedicao(e, amb) ==
    LET arquivos == SelectSeq(Get(e, "projetos_teste", <<>>),
                              LAMBDA p : p \in amb.com_artefato)
    IN IF Get(e, "caminho_projeto", "None") = "None" THEN "sem_caminho"
       ELSE IF Get(e, "projetos_teste", <<>>) = <<>> THEN "sem_projetos"
       ELSE IF arquivos = <<>> THEN "sem_artefato"
       ELSE IF ~mesclar_arquivos_cobertura(arquivos, amb.mescla) THEN "falha_mescla"
       ELSE IF ~amb.resumo.ok THEN "falha_resumo"
       ELSE "medido"

ExecutarCobertura ==
    /\ pc = "executar_cobertura"
    /\ Len(nos_executados) < MaxMedicoes
    /\ \E amb \in Medicoes :
          LET efeitos == efeitos_no_disco(estado, amb, disco, Len(nos_executados) + 1)
          IN /\ estado' = Aplicar(estado, no_executar_cobertura(estado, amb))
             /\ ultima_medicao' = ResultadoMedicao(estado, amb)
             /\ disco' = efeitos.disco
             /\ leituras_mesclado' = efeitos.leituras
             /\ ferramenta_mescla' = efeitos.ferramenta
             /\ cobertura_linhas_modificadas' = efeitos.linhas_modificadas
             /\ passos_diff' = efeitos.passos
    /\ nos_executados' = Append(nos_executados, "executar_cobertura")
    /\ estado_anterior' = estado
    /\ UNCHANGED <<pc, estado_iter, ultima_geracao, ambiente, estado_final, chamada_llm>>
    /\ UNCHANGED fora_medicao

\* The diff command as no_validar_ambiente may find it: failing either way,
\* printing nothing, or printing one changed file.
DiffsAmbiente ==
    { [comando |-> "codigo_nao_zero", saida |-> <<>>],
      [comando |-> "sem_executavel", saida |-> <<>>],
      [comando |-> "ok", saida |-> <<>>],
      [comando |-> "ok",
       saida |-> <<MarcadorAntigo, MarcadorArquivo(<<"A", ".", "c", "s">>),
                   CabecalhoHunk(12, 3)>>] }

\* The state no_validar_ambiente leaves, as the coverage node receives it.
InitCobertura ==
    /\ \E caminho_projeto \in {"None", "proj"}, projetos \in ProjetosTeste,
          diff \in DiffsAmbiente :
          LET inicial == criar_estado_inicial("class A {}", caminho_projeto, 80, MaxIter)
              modificados == obter_arquivos_e_linhas_modificadas(diff.comando, diff.saida)
              amb == [ eh_repositorio |-> TRUE,
                       arquivos_modificados |-> modificados,
                       arquivos_csproj |-> <<"A.csproj">> \o projetos,
                       projetos_teste |-> projetos,
                       dotnet_instalado |-> TRUE ]
          IN /\ estado = Aplicar(inicial, no_validar_ambiente(inicial, amb))
             /\ DiffParado(diff.comando, modificados)
    /\ FiltroParado
    /\ SdksParado /\ TestesParado /\ DiscoParado
    /\ LoopParado /\ BranchParado /\ SemInterrupcao
    /\ pc = "executar_cobertura"
    /\ nos_executados = <<>>
    /\ estado_anterior = estado
    /\ estado_iter = estado
    /\ ultima_geracao = "nenhuma"
    /\ ultima_medicao = "nenhuma"
    /\ ambiente = [llm_configurado |-> TRUE, cobertura_medida |-> CoberturaSobe]
    /\ estado_final = "None"
    /\ chamada_llm = [feita |-> FALSE]

NextCobertura == ExecutarCobertura

SpecCobertura == InitCobertura /\ [][NextCobertura]_vars

\* ------------------------------ nodes.py: per-project loop of the node

\* How the run of one project ends: the build fails, the tests run and exit
\* with a non-zero code, or the tests run and exit with code 0. A test run
\* writes its coverage file either way.
ExecucoesProjeto == {"build_falha", "teste_falha", "teste_ok"}

\* The file the collector writes in run i of the loop (0: a run of an
\* earlier measurement), under a directory named by a fresh GUID.
nome_guid(i) ==
    CASE i = 0 -> "guid0/coverage.cobertura.xml"
      [] i = 1 -> "guid1/coverage.cobertura.xml"
      [] i = 2 -> "guid2/coverage.cobertura.xml"

\* diretorio_saida.rglob('coverage.cobertura.xml'): the files of that very
\* name, which the standardized names are not.
rglob(d) == { f \in DOMAIN d : \E i \in 0..2 : f = nome_guid(i) }

\* A file written, and shutil.move: either replaces what the name held.
escrever(d, f, conteudo) == (f :> conteudo) @@ d

mover(d, origem, destino) ==
    [ f \in (DOMAIN d \ {origem}) \cup {destino} |->
        IF f = destino THEN d[origem] ELSE d[f] ]

\* executar_testes_com_cobertura as run i of the loop: the values it may
\* return with the directory it leaves. The collector strategy takes
\* arquivos_encontrados[0], whose order is that of the directory listing:
\* any file found may be the one moved.
executar_testes_com_cobertura(projeto, tipo, execucao, d, i) ==
    LET conteudo == [projeto |-> projeto, medicao |-> "atual"]
        arquivo_cobertura_projeto == nome_arquivo(projeto)
    IN IF execucao = "build_falha" THEN { [retorno |-> "None", diretorio |-> d] }
       ELSE IF tipo = "collector" THEN
           LET d1 == escrever(d, nome_guid(i), conteudo)
           IN IF execucao = "teste_falha"
              THEN { [retorno |-> "None", diretorio |-> d1] }
              ELSE { [ retorno |-> arquivo_cobertura_projeto,
                       diretorio |-> mover(d1, f, arquivo_cobertura_projeto) ] :
                     f \in rglob(d1) }
       ELSE
           LET d1 == escrever(d, arquivo_cobertura_projeto, conteudo)
           IN { [ retorno |-> IF execucao = "teste_falha" THEN "None"
                              ELSE arquivo_cobertura_projeto,
                  diretorio |-> d1 ] }

\* One pass of `for projeto_str in projetos_teste`.
ExecutarProjeto ==
    /\ pos_loop <= Len(projetos_loop)
    /\ LET projeto == projetos_loop[pos_loop]
       IN \E r \in executar_testes_com_cobertura(projeto, tipos_coverlet[projeto],
                                                 execucoes_loop[pos_loop],
                                                 diretorio_saida, pos_loop) :
             /\ diretorio_saida' = r.diretorio
             /\ arquivos_coletados' =
                   IF r.retorno # "None"
                   THEN Append(arquivos_coletados,
                               [caminho |-> r.retorno, projeto |-> projeto])
                   ELSE arquivos_coletados
    /\ pos_loop' = pos_loop + 1
    /\ UNCHANGED <<projetos_loop, tipos_coverlet, execucoes_loop>>
    /\ UNCHANGED fora_loop

\* Two test projects, with distinct stems or with the same; the results
\* directory is new, or holds the file a collector run of an earlier
\* measurement left when its tests failed.
InitLoop ==
    /\ projetos_loop \in
          { <<p, q>> : p \in {"A.Tests.csproj", "a/Tests.csproj"},
                       q \in {"B.Tests.csproj", "b/Tests.csproj"} }
    /\ tipos_coverlet \in
          [ {projetos_loop[1], projetos_loop[2]} -> {"collector", "msbuild"} ]
    /\ execucoes_loop \in [1..2 -> ExecucoesProjeto]
    /\ diretorio_saida \in
          { <<>>,
            nome_guid(0) :> [projeto |-> projetos_loop[2], medicao |-> "anterior"] }
    /\ arquivos_coletados = <<>>
    /\ pos_loop = 1
    /\ AgenteParado
    /\ DiffParado("ok", <<>>)
    /\ FiltroParado
    /\ SdksParado /\ TestesParado /\ DiscoParado
    /\ BranchParado /\ SemInterrupcao

NextLoop == ExecutarProjeto

SpecLoop == InitLoop /\ [][NextLoop]_vars

\* ------------------------------------------------------------ properties

\* The node app.stream yielded last ("" before the first).
UltimoNo == IF nos_executados = <<>> THEN "" ELSE nos_executados[Len(nos_executados)]

\* How many times node `no` has run.
Execucoes(no) == Cardinality({i \in 1..Len(nos_executados) : nos_executados[i] = no})

\* Position in the stream of the last run of node `no` (0 if it never ran).
UltimaPosicao(no) ==
    LET S == {i \in 1..Len(nos_executados) : nos_executados[i] = no}
    IN IF S = {} THEN 0 ELSE CHOOSE i \in S : \A j \in S : j <= i

\* The Generate stage of the current iteration produced no test.
GeracaoFalhou == ultima_geracao \in {"falha_colaborador", "llm_nao_configurado", "sem_codigo"}

\* C1: every execution of the Decide stage sets deve_continuar to
\* (percentual_cobertura < meta_cobertura and iteracao < max_iteracoes), and
\* the graph then routes to incrementar_iteracao iff the flag is true, to END
\* otherwise.
C1_DecideFlagAndRoute ==
    [][ pc = "verificar_cobertura" =>
          /\ estado'.deve_continuar =
                (estado.percentual_cobertura < estado.meta_cobertura
                 /\ estado.iteracao < estado.max_iteracoes)
          /\ pc' = IF estado'.deve_continuar THEN "incrementar_iteracao" ELSE "END" ]_vars

C1_Witness ==
    /\ UltimoNo = "verificar_cobertura"
    /\ pc = "incrementar_iteracao"
    /\ estado.deve_continuar
    /\ estado.iteracao >= 1

C4_EndReason ==
    pc = "END" =>
        \/ estado.percentual_cobertura >= estado.meta_cobertura
        \/ estado.iteracao >= estado.max_iteracoes

C4_Witness ==
    /\ pc = "END"
    /\ estado.percentual_cobertura < estado.meta_cobertura
    /\ estado.iteracao >= estado.max_iteracoes
    /\ estado.max_iteracoes >= 2

\* C5: with target 80, max_iterations 5 and a Coverage Runner that measures
\* 40, 65, 82 in iterations 0, 1, 2, the loop reaches END at iteration 2 with
\* deve_continuar false, after three generations and no more.
C5_StopsWhenTargetMet ==
    ( /\ pc = "END"
      /\ ambiente.cobertura_medida = CoberturaSobe
      /\ estado.meta_cobertura = 80
      /\ estado.max_iteracoes = 5 )
    => ( /\ estado.iteracao = 2
         /\ ~estado.deve_continuar
         /\ Execucoes("gerar_testes") = 3 )

\* C6: if coverage stays below the target and every generation succeeds, the
\* loop ends with iteracao = max_iteracoes, deve_continuar false and exactly
\* max_iteracoes entries in testes_gerados.
C6_BudgetExhaustedTests ==
    ( /\ pc = "END"
      /\ estado.percentual_cobertura < estado.meta_cobertura
      /\ Len(estado.testes_gerados) = Execucoes("gerar_testes") )
    => ( /\ estado.iteracao = estado.max_iteracoes
         /\ ~estado.deve_continuar
         /\ Len(estado.testes_gerados) = estado.max_iteracoes )

\* C7: in every iteration the Decide stage runs only after the coverage
\* measurement of that same iteration, which follows Generate and Validate.
C7_DecideAfterMeasurement ==
    UltimoNo = "verificar_cobertura" =>
        /\ UltimaPosicao("gerar_testes") < UltimaPosicao("validar_testes")
        /\ UltimaPosicao("validar_testes") < UltimaPosicao("executar_cobertura")

\* C8 (as stated): a failed generation call makes the error list grow by
\* exactly one entry during that iteration, leaves percentual_cobertura as it
\* was, and Decide still runs.
C8_ErrorsGrowByExactlyOne ==
    (ultima_geracao = "falha_colaborador" /\ UltimoNo = "verificar_cobertura") =>
        /\ Len(estado.erros) = Len(estado_iter.erros) + 1
        /\ estado.percentual_cobertura = estado_iter.percentual_cobertura

\* C8 (amended): when the Generate stage of an iteration produces no test, it
\* appends exactly one entry to erros; the Validate stage of that iteration
\* appends one more iff testes_gerados is empty; percentual_cobertura keeps
\* its value; and the graph goes on to Decide.
C8_FailedGenerationRecorded ==
    (GeracaoFalhou /\ UltimoNo # "incrementar_iteracao") =>
        /\ estado.percentual_cobertura = estado_iter.percentual_cobertura
        /\ estado.testes_gerados = estado_iter.testes_gerados
        /\ UltimoNo = "gerar_testes" =>
              /\ Len(estado.erros) = Len(estado_iter.erros) + 1
              /\ pc = "validar_testes"
        /\ UltimoNo \in {"validar_testes", "verificar_cobertura"} =>
              Len(estado.erros) = Len(estado_iter.erros) + 1
                                  + (IF estado.testes_gerados = <<>> THEN 1 ELSE 0)
        /\ UltimoNo = "validar_testes" => pc = "verificar_cobertura"

C8_Witness ==
    /\ ultima_geracao = "falha_colaborador"
    /\ UltimoNo = "verificar_cobertura"
    /\ estado.iteracao >= 1
    /\ estado.testes_gerados # <<>>
    /\ Len(estado.erros) = Len(estado_iter.erros) + 1

\* C9: when the Validate stage finds the test generated in the iteration
\* invalid, the failure is appended to erros (and the graph goes on to Decide).
C9_InvalidTestRecorded ==
    ( /\ UltimoNo = "validar_testes"
      /\ ultima_geracao = "teste"
      /\ ~validar_codigo_teste(estado.testes_gerados[Len(estado.testes_gerados)]).eh_valido )
    => ( /\ Len(estado.erros) > Len(estado_anterior.erros)
         /\ pc = "verificar_cobertura" )

\* C10: a failed coverage measurement (no artifact, merge failure, summary
\* extraction failure) leaves percentual_cobertura at the value it had before
\* the call.
C10_FailedMeasurementKeepsCoverage ==
    ( /\ UltimoNo = "executar_cobertura"
      /\ ultima_medicao \in {"sem_artefato", "falha_mescla", "falha_resumo"} )
    => estado.percentual_cobertura = estado_anterior.percentual_cobertura

\* C11: when the environment validation leaves validacoes_concluidas false,
\* the run aborts before the loop: no Generate stage is ever executed.
C11_AbortsBeforeLoop ==
    (Execucoes("validar_ambiente") >= 1 /\ ~estado.validacoes_concluidas)
    => Execucoes("gerar_testes") = 0

\* C12: when the run ends, the result main reads from estado_final holds
\* every generated test, the last coverage and every recorded error.
C12_FinalResultComplete ==
    pc = "END" =>
        /\ ResultadosFinais.testes_gerados = estado.testes_gerados
        /\ ResultadosFinais.cobertura = estado.percentual_cobertura
        /\ ResultadosFinais.erros = estado.erros

\* C13: in every iteration k > 0 the request sent to the collaborator carries
\* the source code, the iteration number k, and the tests generated in the
\* earlier iterations as existing tests (so neither an empty text nor the
\* "no existing test" placeholder when earlier tests exist). estado_iter is
\* the state the Generate stage of that iteration received.
C13_EarlierTestsPassed ==
    ( /\ chamada_llm.feita
      /\ chamada_llm.iteration >= 1
      /\ estado_iter.testes_gerados # <<>> )
    => ( /\ chamada_llm.source_code = estado_iter.codigo_fonte
         /\ chamada_llm.iteration = estado_iter.iteracao
         /\ chamada_llm.existing_tests \notin {"", "Nenhum teste existente."} )

\* The part of C13 the code keeps: every request carries the source code and
\* the iteration number of the state the Generate stage received.
C13_SourceAndIterationPassed ==
    chamada_llm.feita
    => ( /\ chamada_llm.source_code = estado_iter.codigo_fonte
         /\ chamada_llm.iteration = estado_iter.iteracao )

\* C14: an unavailable collaborator, an error during the call and an empty or
\* whitespace-only response all end the Generate stage the same way: no test
\* appended, exactly one entry appended to erros, and the graph goes on.
C14_GenerationFailureUniform ==
    [][ (pc = "gerar_testes"
         /\ ultima_geracao' \in {"falha_colaborador", "llm_nao_configurado"})
        => /\ estado'.testes_gerados = estado.testes_gerados
           /\ Len(estado'.erros) = Len(estado.erros) + 1
           /\ SubSeq(estado'.erros, 1, Len(estado.erros)) = estado.erros
           /\ pc' = "validar_testes" ]_vars

C14_Witness ==
    /\ UltimoNo = "gerar_testes"
    /\ ultima_geracao = "llm_nao_configurado"
    /\ estado.iteracao >= 1
    /\ Len(estado.erros) = Len(estado_anterior.erros) + 1

\* The lines a ChangeSet holds for a path ({} when the path is no key).
LinhasDe(modificadas, arquivo) ==
    IF arquivo \in DOMAIN modificadas THEN modificadas[arquivo] ELSE {}

\* C15: a hunk header "+c,d" read while a file is tracked adds exactly the
\* lines c..c+d-1 to that file and nothing to any other, and exactly {c}
\* when the count is left out ("+12,3" adds 12, 13, 14; "+7" adds 7).
C15_HunkAddsExactRange ==
    [][ \A h \in Hunks :
          ( /\ fase_diff = "lendo"
            /\ pos_diff <= Len(saida_diff)
            /\ saida_diff[pos_diff] = CabecalhoHunk(h[1], h[2])
            /\ arquivo_atual # <<>> )
          => \A a \in DOMAIN linhas_modificadas \cup DOMAIN linhas_modificadas'
                      \cup {arquivo_atual} :
                LinhasDe(linhas_modificadas', a) =
                    LinhasDe(linhas_modificadas, a)
                    \cup (IF a = arquivo_atual THEN h[1]..(h[1] + h[2] - 1) ELSE {}) ]_vars

C15_Witness ==
    /\ fase_diff = "retornou"
    /\ saida_diff = << MarcadorArquivo(<<"A", ".", "c", "s">>),
                       CabecalhoHunk(12, 3), CabecalhoHunk(7, 1) >>
    /\ resultado_dict = (<<"A", ".", "c", "s">> :> {7, 12, 13, 14})

\* Line i of the output stands below a "+++ /dev/null" marker with no marker
\* of a file in between.
SobMarcadorNulo(i) ==
    \E j \in 1..(i - 1) :
        /\ saida_diff[j] = MarcadorNulo
        /\ \A m \in (j + 1)..(i - 1) :
              saida_diff[m] \notin { MarcadorArquivo(p) : p \in Caminhos }

\* C16: reading "+++ /dev/null" does not start tracking a file (the current
\* file stays what it was, or none), and no line read below it, before the
\* next marker of a file, adds an entry to the ChangeSet.
C16_DevNullNotTracked ==
    [][ (fase_diff = "lendo" /\ pos_diff <= Len(saida_diff))
        => /\ saida_diff[pos_diff] = MarcadorNulo
                => arquivo_atual' \in {arquivo_atual, <<>>}
           /\ SobMarcadorNulo(pos_diff)
                => linhas_modificadas' = linhas_modificadas ]_vars

\* C17: the returned ChangeSet maps no key to the empty set and holds only
\* positive line numbers, hunks with an empty new side included.
C17_NoEmptyKeyPositiveLines ==
    fase_diff = "retornou" =>
        \A a \in DOMAIN resultado_dict :
            /\ resultado_dict[a] # {}
            /\ \A n \in resultado_dict[a] : n >= 1

C17_Witness ==
    /\ fase_diff = "retornou"
    /\ saida_diff = << MarcadorArquivo(<<"A", ".", "c", "s">>), CabecalhoHunk(0, 0),
                       MarcadorArquivo(<<"d", "/", "A", ".", "c", "s">>),
                       CabecalhoHunk(12, 3) >>
    /\ resultado_dict = (<<"d", "/", "A", ".", "c", "s">> :> {12, 13, 14})

\* C18: when the diff command fails (non-zero exit or no executable) the
\* extractor returns the empty ChangeSet, and a coverage measurement that
\* then succeeds records no error, names no diff artifact and publishes the
\* measured coverage.
C18_DiffFailureSkipsFilter ==
    [][ comando_diff # "ok"
        => /\ resultado_dict = <<>>
           /\ Get(estado, "arquivos_modificados", <<>>) = <<>>
           /\ (nos_executados' # nos_executados /\ ultima_medicao' = "medido")
                => /\ estado'.erros = estado.erros
                   /\ estado'.arquivo_cobertura_diff = "None"
                   /\ estado'.relatorio_html_diff = "None"
                   /\ estado'.percentual_cobertura = estado'.resumo_cobertura.line_coverage ]_vars

C18_Witness ==
    /\ comando_diff = "sem_executavel"
    /\ ultima_medicao = "medido"
    /\ estado.percentual_cobertura = 82
    /\ estado.arquivo_cobertura_diff = "None"
    /\ estado.erros = <<>>

\* Line n belongs to the changed lines of a ChangeSet key named like `arquivo`.
LinhaModificada(arquivo, n) ==
    \E i \in 1..Len(itens_modificados) :
        /\ Path_name(itens_modificados[i].caminho) = Path_name(arquivo)
        /\ n \in itens_modificados[i].linhas

\* The numbers of all <line> elements below a class, those of its methods included.
EntradasLinha(classe) ==
    { classe.linhas[k] : k \in 1..Len(classe.linhas) }
    \cup UNION { { classe.metodos[m][k] : k \in 1..Len(classe.metodos[m]) } :
                  m \in 1..Len(classe.metodos) }

\* C19: in the written report every class is named like a ChangeSet key, and
\* every line entry below it has a number in that key's changed-line set.
C19_OnlyChangedLinesRemain ==
    (fase_filtro = "retornou" /\ retorno_filtro) =>
        \A p \in 1..Len(arquivo_saida.pacotes) :
            \A i \in 1..Len(arquivo_saida.pacotes[p]) :
                LET classe == arquivo_saida.pacotes[p][i]
                IN /\ \E j \in 1..Len(itens_modificados) :
                         Path_name(itens_modificados[j].caminho) = Path_name(classe.filename)
                   /\ \A n \in EntradasLinha(classe) : LinhaModificada(classe.filename, n)

\* C20: every line entry of a class of the input report whose number is in
\* the changed-line set of a ChangeSet key named like the class file is in the
\* written report, also when two keys share a file name.
C20_NoChangedLineDropped ==
    (fase_filtro = "retornou" /\ retorno_filtro) =>
        \A p \in 1..Len(arquivo_cobertura.pacotes) :
            \A i \in 1..Len(arquivo_cobertura.pacotes[p]) :
                LET classe == arquivo_cobertura.pacotes[p][i]
                IN \A k \in 1..Len(classe.linhas) :
                      LinhaModificada(classe.filename, classe.linhas[k]) =>
                          \E j \in 1..Len(arquivo_saida.pacotes[p]) :
                              LET saida == arquivo_saida.pacotes[p][j]
                              IN /\ saida.filename = classe.filename
                                 /\ \E m \in 1..Len(saida.linhas) :
                                       saida.linhas[m] = classe.linhas[k]

\* C21: filtering the report the filter wrote, with the same ChangeSet,
\* succeeds and writes an identical report: no further class or line goes.
C21_FilterIdempotent ==
    fase_filtro = "refiltrou" =>
        /\ retorno_refiltro
        /\ arquivo_refiltrado = arquivo_saida

C21_Witness ==
    /\ fase_filtro = "refiltrou"
    /\ arquivo_refiltrado.existe
    /\ arquivo_saida # arquivo_cobertura
    /\ \E p \in 1..Len(arquivo_saida.pacotes) :
          /\ Len(arquivo_saida.pacotes[p]) = 1
          /\ Len(arquivo_cobertura.pacotes[p]) = 2
          /\ Len(arquivo_saida.pacotes[p][1].linhas) = 2
          /\ \E i \in 1..2 : /\ arquivo_cobertura.pacotes[p][i].filename
                                  = arquivo_saida.pacotes[p][1].filename
                             /\ Len(arquivo_cobertura.pacotes[p][i].linhas) = 3

\* C22: with an empty ChangeSet the filter of an existing report returns
\* success and writes a report that retains zero lines.
C22_EmptyChangeSetSucceeds ==
    ( /\ fase_filtro \in {"retornou", "refiltrou"}
      /\ itens_modificados = <<>>
      /\ arquivo_cobertura.existe /\ arquivo_cobertura.valido )
    => /\ retorno_filtro
       /\ arquivo_saida.existe
       /\ \A p \in 1..Len(arquivo_saida.pacotes) :
             \A i \in 1..Len(arquivo_saida.pacotes[p]) :
                 arquivo_saida.pacotes[p][i].linhas = <<>>

\* C23: no call of the filter or of the summary changes the report it reads;
\* the summary writes no file, and a call of the filter writes only its own
\* output file.
C23_FilterWritesOnlyItsOutput ==
    [][ /\ arquivo_cobertura' = arquivo_cobertura
        /\ resumo_extraido' # resumo_extraido
              => (arquivo_saida' = arquivo_saida /\ arquivo_refiltrado' = arquivo_refiltrado)
        /\ fase_filtro = "inicio"
              => arquivo_refiltrado' = arquivo_refiltrado
        /\ fase_filtro = "retornou"
              => arquivo_saida' = arquivo_saida ]_vars

C23_Witness ==
    /\ fase_filtro = "refiltrou"
    /\ resumo_extraido.ok
    /\ arquivo_saida.existe
    /\ arquivo_saida.pacotes # arquivo_cobertura.pacotes
    /\ arquivo_cobertura.raiz = RaizRelatorio(arquivo_cobertura.pacotes)
    /\ arquivo_cobertura.raiz.lines_valid > 0

\* C29: the summary of an artifact with lines-covered = c and lines-valid =
\* v > 0 has lines_uncovered = v - c and line_coverage = 100 * c / v (in
\* hundredths of a percent: line_coverage_e2 * v = 10000 * c); 45 of 60 gives
\* 75.0 and 15.
C29_SummaryArithmetic ==
    (resumo_extraido.feito /\ resumo_extraido.ok /\ arquivo_cobertura.raiz.lines_valid > 0)
    => LET c == arquivo_cobertura.raiz.lines_covered
           v == arquivo_cobertura.raiz.lines_valid
       IN /\ resumo_extraido.lines_uncovered = v - c
          /\ resumo_extraido.line_coverage_e2 * v = 10000 * c
          /\ (c = 45 /\ v = 60) => /\ resumo_extraido.line_coverage_e2 = 7500
                                   /\ resumo_extraido.lines_uncovered = 15

\* The part of C29 the code keeps: lines_uncovered = v - c, line_coverage is
\* the line-rate attribute times 100, and 45 of 60 gives 75.0 and 15.
C29_SummaryFromRootAttributes ==
    (resumo_extraido.feito /\ resumo_extraido.ok)
    => LET c == arquivo_cobertura.raiz.lines_covered
           v == arquivo_cobertura.raiz.lines_valid
       IN /\ resumo_extraido.lines_uncovered = v - c
          /\ resumo_extraido.line_coverage_e2 = arquivo_cobertura.raiz.line_rate_e4
          /\ (c = 45 /\ v = 60 /\ fase_filtro = "resumo")
                => /\ resumo_extraido.line_coverage_e2 = 7500
                   /\ resumo_extraido.lines_uncovered = 15

\* The major version of the platform a target framework names, and of an
\* installed SDK.
C30_MajorDoFramework(f) ==
    CASE f = Net80 -> 8 [] f = Net80Maiuscula -> 8 [] f = Net60 -> 6
      [] f = NetCoreApp31 -> 3 [] f = Net472 -> 4

C30_MajoresInstalados ==
    { (CASE sdks_instalados[i] = Sdk8 -> 8 [] sdks_instalados[i] = Sdk6 -> 6
         [] sdks_instalados[i] = Sdk3 -> 3 [] sdks_instalados[i] = Sdk2 -> 2) :
      i \in 1..Len(sdks_instalados) }

C30_Insatisfeitos ==
    { f \in frameworks_necessarios :
        ~ \/ C30_MajorDoFramework(f) \in C30_MajoresInstalados
          \/ /\ C30_MajorDoFramework(f) < 5
             /\ \E m \in C30_MajoresInstalados : m >= 5 }

\* C30: verificar_sdks_necessarios treats a required framework of major M as
\* satisfied iff M is an installed SDK major, or M < 5 and some installed
\* major is >= 5; it returns True iff no required framework is unsatisfied,
\* together with exactly the unsatisfied frameworks.
C30_SdkSufficiency ==
    fase_sdks = "retornou" =>
        /\ todos_ok = (C30_Insatisfeitos = {})
        /\ frameworks_faltando = C30_Insatisfeitos

\* What does hold: the SDK majors are read from the first field of each
\* version, True is returned exactly when the list returned is empty, and
\* every framework "net<digits>" with digits >= 5 is listed iff that number
\* is no installed major.
C30_ModernFrameworksChecked ==
    fase_sdks = "retornou" =>
        /\ majors_dos_sdks(sdks_instalados) = C30_MajoresInstalados
        /\ todos_ok = (frameworks_faltando = {})
        /\ \A f \in frameworks_necessarios \cap {Net80, Net80Maiuscula, Net60} :
               f \in frameworks_faltando <=> C30_MajorDoFramework(f) \notin C30_MajoresInstalados

\* C27: when the test run exits with a non-zero code because tests fail,
\* executar_testes_com_cobertura does not raise and returns the coverage
\* artifact that run produced.
C27_FailingTestsStillCollected ==
    ( /\ fase_testes = "retornou"
      /\ resultado_build = "ok"
      /\ resultado_teste = "codigo_nao_zero"
      /\ artefato_gerado )
    => retorno_testes = "arquivo_cobertura"

\* C28: executar_testes_com_cobertura builds before it runs the tests, never
\* runs the tests when the build fails, and returns None when the build fails
\* or when no coverage artifact exists after the test run, under both
\* strategies.
C28_BuildGatesTests ==
    /\ comandos_executados \in {<<>>, <<"build">>, <<"build", "test">>}
    /\ resultado_build # "ok" =>
           /\ comandos_executados \in {<<>>, <<"build">>}
           /\ fase_testes \in {"inicio", "retornou"}
    /\ fase_testes = "retornou" =>
           /\ resultado_build # "ok" => retorno_testes = "None"
           /\ (~artefato_gerado /\ ~artefato_antigo) => retorno_testes = "None"

C28_Witness ==
    /\ fase_testes = "retornou"
    /\ resultado_build = "falha"
    /\ resultado_teste = "ok"
    /\ artefato_antigo
    /\ comandos_executados = <<"build">>
    /\ retorno_testes = "None"

\* C24: after a successful measurement with a non-empty ChangeSet the
\* percentual_cobertura that feeds the continuation predicate is the line
\* coverage of the changed lines, not the total coverage of the merged report.
C24_PercentageOfChangedLines ==
    ( /\ ultima_medicao = "medido"
      /\ Get(estado, "arquivos_modificados", <<>>) # <<>>
      /\ estado.arquivo_cobertura_diff # "None" )
    => estado.percentual_cobertura = cobertura_linhas_modificadas

\* What does hold: the percentage published is the line coverage read from
\* the merged report, which the filter step does not change.
C24_PercentageOfMergedReport ==
    [][ (nos_executados' # nos_executados /\ ultima_medicao' = "medido")
        => /\ \E amb \in Medicoes :
                 /\ amb.resumo.ok
                 /\ estado'.percentual_cobertura = amb.resumo.line_coverage
                 /\ cobertura_linhas_modificadas' = amb.resumo.linhas_modificadas
           /\ \E l \in leituras_mesclado' : l.passo = "resumo" ]_vars

\* The measurement that has just returned went past the test runs with
\* exactly one coverage artifact.
C25_UmRelatorio ==
    /\ ultima_medicao \in {"medido", "falha_resumo", "falha_mescla"}
    /\ Len(estado.arquivos_cobertura) = 1

\* C25: mesclar_arquivos_cobertura on a list of exactly one report is a pure
\* copy: the merged artifact has the content of that report, the report stays
\* in place, success is returned and the merge tool is not invoked.
C25_SingleReportIsCopied ==
    C25_UmRelatorio =>
        LET relatorio == nome_arquivo(estado.arquivos_cobertura[1])
        IN /\ relatorio \in DOMAIN disco
           /\ "coverage_merged.cobertura.xml" \in DOMAIN disco
           /\ disco["coverage_merged.cobertura.xml"] = disco[relatorio]
           /\ disco[relatorio].medicao = Len(nos_executados)
           /\ ultima_medicao # "falha_mescla"
           /\ estado.arquivo_cobertura_mesclado = "coverage_merged.cobertura.xml"
           /\ ferramenta_mescla = "nao_invocada"

\* The second measurement found one artifact where the first had merged two.
C25_Witness ==
    /\ C25_UmRelatorio
    /\ Len(nos_executados) = 2
    /\ estado.arquivos_cobertura = <<"B.Tests.csproj">>
    /\ "A.Tests_coverage.cobertura.xml" \in DOMAIN disco
    /\ disco["coverage_merged.cobertura.xml"] = [medicao |-> 2, fontes |-> {"B.Tests.csproj"}]

CamposAmbiente ==
    { "eh_repositorio_git", "validacoes_concluidas", "arquivos_modificados",
      "arquivos_csproj", "projetos_teste", "dotnet_instalado" }

\* C32: the environment probe runs exactly once per run, before the loop;
\* after it no stage of the loop (Generate, Validate, Decide, increment)
\* changes arquivos_modificados or any readiness field of the state.
C32_EnvironmentProbedOnce ==
    [][ /\ nos_executados = <<>> => pc = "validar_ambiente"
        /\ pc' # "validar_ambiente"
        /\ pc # "validar_ambiente" =>
               /\ Execucoes("validar_ambiente") = 1
               /\ nos_executados[1] = "validar_ambiente"
               /\ \A k \in CamposAmbiente : estado'[k] = estado[k] ]_vars

C32_Witness ==
    /\ UltimoNo = "incrementar_iteracao"
    /\ estado.iteracao = 2
    /\ estado.arquivos_modificados # <<>>
    /\ estado.validacoes_concluidas
    /\ Len(estado.testes_gerados) = 2

\* The history entry the Validate stage has just appended.
ValidacaoRegistrada ==
    /\ UltimoNo = "validar_testes"
    /\ Len(estado.historico) = Len(estado_anterior.historico) + 1

\* C35: the Validate stage only evaluates a test produced by the Generate
\* stage of the same iteration: when generation fails in an iteration k > 0,
\* no validation result for a test of an earlier iteration is recorded.
C35_ValidatesSameIterationTest ==
    ValidacaoRegistrada =>
        /\ ~GeracaoFalhou
        /\ estado.historico[Len(estado.historico)].teste.iteracao = estado.iteracao

\* What does hold: the Validate stage evaluates the last element of
\* testes_gerados, whichever iteration produced it.
C35_ValidatesLastTest ==
    ValidacaoRegistrada =>
        /\ estado.testes_gerados # <<>>
        /\ estado.historico[Len(estado.historico)].teste
               = estado.testes_gerados[Len(estado.testes_gerados)]

\* s is a prefix of t.
Prefixo(s, t) == Len(s) <= Len(t) /\ SubSeq(t, 1, Len(s)) = s

\* C36: the error list is append-only: for every stage of the graph the
\* erros list before the stage is a prefix of the erros list after it.
C36_ErrorsAppendOnly ==
    [][ Prefixo(estado.erros, estado'.erros) ]_vars

C36_Witness ==
    /\ Len(estado.erros) >= 3
    /\ estado.erros[1] = "Caminho do projeto nao fornecido"
    /\ estado.iteracao >= 1
    /\ UltimoNo = "gerar_testes"
    /\ Len(estado.erros) = Len(estado_anterior.erros) + 1

\* C37: in every reachable state len(testes_gerados) <= iteracao + 1; each
\* execution of the Generate stage appends at most one test and keeps the
\* earlier ones.
C37_AtMostOneTestPerIteration ==
    [][ /\ Len(estado.testes_gerados) <= estado.iteracao + 1
        /\ Len(estado'.testes_gerados) <= estado'.iteracao + 1
        /\ Prefixo(estado.testes_gerados, estado'.testes_gerados)
        /\ Len(estado'.testes_gerados) <= Len(estado.testes_gerados) + 1 ]_vars

C37_Witness ==
    /\ UltimoNo = "gerar_testes"
    /\ estado.iteracao = 2
    /\ Len(estado.testes_gerados) = 3

\* C40: only "+++" file-marker lines change the extractor's current file: an
\* added content line whose own content starts with "++" never changes the
\* current file and never creates a ChangeSet key, so the hunks after it stay
\* with the file named by the last marker.
C40_AddedLineIsNoMarker ==
    [][ (fase_diff = "lendo" /\ pos_diff <= Len(saida_diff))
        => /\ saida_diff[pos_diff] = LinhaAdicionada
                => arquivo_atual' = arquivo_atual
           /\ DOMAIN linhas_modificadas' \subseteq
                  DOMAIN linhas_modificadas
                  \cup { strip(Fatia(saida_diff[j], 6)) :
                           j \in { k \in 1..pos_diff : startswith(saida_diff[k], <<"+", "+", "+", " ">>) } } ]_vars

\* What does hold: every line that starts with "+++" is taken for a marker,
\* and what follows its sixth character becomes the current file.
C40_EveryTriplePlusIsMarker ==
    [][ ( /\ fase_diff = "lendo"
          /\ pos_diff <= Len(saida_diff)
          /\ saida_diff[pos_diff] = LinhaAdicionada )
        => arquivo_atual' = <<"n", "t", "e", "r", ";">> ]_vars

\* C38: in the report written by filtrar_cobertura_por_diff the root
\* attributes describe the retained line entries: lines-valid is the number
\* of retained lines, lines-covered the number of those with a hit, line-rate
\* their ratio, so that the summary of the filtered report is the coverage of
\* the changed lines.
C38_FilteredRootDescribesRetained ==
    (fase_filtro \in {"retornou", "refiltrou"} /\ retorno_filtro) =>
        /\ arquivo_saida.raiz = RaizRelatorio(arquivo_saida.pacotes)
        /\ extrair_resumo_cobertura(arquivo_saida).lines_valid
               = Len(LinhasRelatorio(arquivo_saida.pacotes))

\* What does hold: the root is written as it was read, whatever was removed.
C38_FilteredRootUnchanged ==
    (fase_filtro \in {"retornou", "refiltrou"} /\ retorno_filtro) =>
        /\ arquivo_saida.raiz = arquivo_cobertura.raiz
        /\ arquivo_cobertura.raiz = RaizRelatorio(arquivo_cobertura.pacotes)
        /\ Len(LinhasRelatorio(arquivo_saida.pacotes))
               <= Len(LinhasRelatorio(arquivo_cobertura.pacotes))

\* C39: after no_executar_cobertura the diff-scoped artifact paths of the
\* state are non-null only if the step producing them succeeded in that
\* measurement: arquivo_cobertura_diff only if the filter returned success,
\* relatorio_html_diff only if the diff HTML report was rendered.
C39_DiffPathsOnlyOnSuccess ==
    ( /\ UltimoNo = "executar_cobertura"
      /\ ultima_medicao \in {"medido", "falha_resumo", "falha_mescla"} )
    => /\ estado.arquivo_cobertura_diff # "None" => passos_diff.filtro = "sucesso"
       /\ estado.relatorio_html_diff # "None" => passos_diff.html_diff = "sucesso"

\* What does hold: arquivo_cobertura_diff is set as soon as the filter is
\* called, relatorio_html_diff as soon as the filter succeeds.
C39_DiffPathsOnAttempt ==
    ( /\ UltimoNo = "executar_cobertura"
      /\ ultima_medicao \in {"medido", "falha_resumo", "falha_mescla"} )
    => /\ estado.arquivo_cobertura_diff # "None" <=> passos_diff.filtro # "nao_executado"
       /\ estado.relatorio_html_diff # "None" <=> passos_diff.filtro = "sucesso"

\* C31: detectar_branch_base returns the first reference that resolves in
\* the order origin/main, origin/master, main, master, and None if none
\* resolves; a local reference is returned only when no remote candidate
\* resolves.
C31_FirstResolvingCandidate ==
    fase_branch = "retornou" =>
        /\ branch_base =
              ( IF "origin/main" \in refs_existentes THEN "origin/main"
                ELSE IF "origin/master" \in refs_existentes THEN "origin/master"
                ELSE IF "main" \in refs_existentes THEN "main"
                ELSE IF "master" \in refs_existentes THEN "master"
                ELSE "None" )
        /\ branch_base \in {"main", "master"} =>
              refs_existentes \cap {"origin/main", "origin/master"} = {}

C31_Witness ==
    /\ fase_branch = "retornou"
    /\ resultado_fetch = "codigo_nao_zero"
    /\ refs_existentes = {"origin/master", "main", "master", "develop"}
    /\ branch_base = "origin/master"

\* C34: after the per-project loop every path in arquivos_cobertura names a
\* file that holds the coverage data of the run of the project it was
\* returned for: no artifact is overwritten by a later project's run, and the
\* collector strategy picks up no stale report of an earlier failed run.
C34_ArtifactsBelongToTheirRun ==
    pos_loop > Len(projetos_loop) =>
        \A k \in 1..Len(arquivos_coletados) :
            /\ arquivos_coletados[k].caminho \in DOMAIN diretorio_saida
            /\ diretorio_saida[arquivos_coletados[k].caminho]
                   = [projeto |-> arquivos_coletados[k].projeto, medicao |-> "atual"]

\* What does hold: the claim, when the projects have distinct stems and no
\* collector report is lying in the results directory when a collector run
\* succeeds.
C34_HoldsWithoutLeftovers ==
    ( /\ pos_loop > Len(projetos_loop)
      /\ Len(projetos_loop) = 2
      /\ nome_arquivo(projetos_loop[1]) # nome_arquivo(projetos_loop[2])
      /\ rglob(diretorio_saida) = {} )
    => \A k \in 1..Len(arquivos_coletados) :
          /\ arquivos_coletados[k].caminho \in DOMAIN diretorio_saida
          /\ diretorio_saida[arquivos_coletados[k].caminho]
                 = [projeto |-> arquivos_coletados[k].projeto, medicao |-> "atual"]

\* C33: a user interruption raised during any stage propagates at once: the
\* stage's error handling does not turn it into an update of the state, no
\* stage of the graph runs after the interrupted one, and the run is ended.
C33_InterruptionEndsTheRun ==
    [][ interrompido_em' # "nenhum" =>
          /\ pc' = "interrompido"
          /\ estado' = estado
          /\ nos_executados' = nos_executados
          /\ estado_final' = estado_final ]_vars

C33_Witness ==
    /\ interrompido_em = "gerar_testes"
    /\ pc = "interrompido"
    /\ estado.iteracao >= 1
    /\ Len(nos_executados) >= 5

====
